---- MODULE Spec2Model ----
(***************************************************************************)
(* Financial-metrics engine of the campaign-management cloud functions.    *)
(*                                                                         *)
(* The collaborator listing (getcollaborators), the project listing        *)
(* (getprojects) and the daily-report functions (handleProjectReport,      *)
(* performProjectSync/manualDailyUpdate) each compute income, expense,     *)
(* rebate, occupation days, funds-occupation cost and margins from the     *)
(* stored collaboration, project and capital-rate documents.               *)
(*                                                                         *)
(* Values.  A stored or computed value is a record [k, n, d, s]:           *)
(*   k = "missing"  the field is absent from the document                  *)
(*   k = "null"     BSON null / JS null                                    *)
(*   k = "str"      a string that is not a numeral; s is its text          *)
(*   k = "numstr"   a string holding the numeral n/d                       *)
(*   k = "datestr"  a string "YYYY-MM-DD"; n is the day number             *)
(*   k = "num"      the number n/d (d > 0, lowest terms)                   *)
(*   k = "date"     an instant; n is hours since day 0, 00:00 UTC          *)
(*   k = "nan"      the JavaScript NaN                                     *)
(*   k = "err"      the evaluation raised (conversion failure, /0)         *)
(* Numbers are exact rationals; the rounding of IEEE doubles is not        *)
(* modelled.  Status strings are written in ASCII:                         *)
(*   "confirmed" = kehu yi dingdang, "published" = shipin yi fabu,         *)
(*   "finalized" = yi zhongjie, "executing" = zhixing zhong.               *)
(***************************************************************************)
EXTENDS Integers, Sequences, FiniteSets, TLC

VARIABLES projects, collaborations, rates, works, now, resp, inflight,
          jobs, automationTasks, tasks, taskRunLogs, notifications,
          generatedSheets, talents

vars == <<projects, collaborations, rates, works, now, resp, inflight,
          jobs, automationTasks, tasks, taskRunLogs, notifications,
          generatedSheets, talents>>

\* the collections of the automation functions, of the task generator and of
\* the generated-sheets manager
automationState == <<jobs, automationTasks>>

generatorState == <<tasks, taskRunLogs, notifications>>

\* generated_sheets, and the talents collection the task generator reads
sheetState == <<generatedSheets, talents>>

\* the collections the report functions never touch
OtherCollectionsEmpty ==
  /\ jobs = <<>>
  /\ automationTasks = <<>>
  /\ tasks = <<>>
  /\ taskRunLogs = <<>>
  /\ notifications = <<>>
  /\ generatedSheets = <<>>
  /\ talents = <<>>

----------------------------------------------------------------------------
(* Value constructors *)

Missing == [k |-> "missing", n |-> 0, d |-> 1, s |-> ""]

Null == [k |-> "null", n |-> 0, d |-> 1, s |-> ""]

NaN == [k |-> "nan", n |-> 0, d |-> 1, s |-> ""]

Err == [k |-> "err", n |-> 0, d |-> 1, s |-> ""]

Str(text) == [k |-> "str", n |-> 0, d |-> 1, s |-> text]

EmptyStr == Str("")

RECURSIVE GCD(_, _)
GCD(a, b) == IF b = 0 THEN a ELSE GCD(b, a % b)

Abs(x) == IF x < 0 THEN 0 - x ELSE x

\* the rational p/q in lowest terms with a positive denominator
Num(p, q) ==
  LET sp == IF q < 0 THEN 0 - p ELSE p
      sq == Abs(q)
      g == GCD(Abs(sp), sq)
  IN [k |-> "num", n |-> sp \div g, d |-> sq \div g, s |-> ""]

N(i) == Num(i, 1)

NumStr(p, q) == [Num(p, q) EXCEPT !.k = "numstr"]

DateStr(day) == [k |-> "datestr", n |-> day, d |-> 1, s |-> ""]

Date(hours) == [k |-> "date", n |-> hours, d |-> 1, s |-> ""]

IsNum(v) == v.k = "num"

IsNullish(v) == v.k \in {"null", "missing"}

\* exact comparison of two numbers
NumLess(a, b) == a.n * b.d < b.n * a.d

----------------------------------------------------------------------------
(* Aggregation-expression operators of the document store, as the          *)
(* pipelines use them.  An absent field ("missing") is not equal to null   *)
(* in $eq/$ne/$in; $ifNull treats both alike; conversions of null or       *)
(* missing give null; arithmetic with a null operand gives null.           *)

\* $toDouble
toDouble(v) ==
  CASE v.k = "num" -> v
    [] v.k = "numstr" -> Num(v.n, v.d)
    [] v.k \in {"null", "missing"} -> Null
    [] OTHER -> Err

\* $toDate
toDate(v) ==
  CASE v.k = "datestr" -> Date(v.n * 24)
    [] v.k = "date" -> v
    [] v.k \in {"null", "missing"} -> Null
    [] OTHER -> Err

\* $ifNull
ifNull(v, w) == IF IsNullish(v) THEN w ELSE v

\* $multiply of two operands
multiply(a, b) ==
  CASE a.k = "err" \/ b.k = "err" -> Err
    [] IsNullish(a) \/ IsNullish(b) -> Null
    [] IsNum(a) /\ IsNum(b) -> Num(a.n * b.n, a.d * b.d)
    [] OTHER -> Err

multiply3(a, b, c) == multiply(multiply(a, b), c)

\* $divide; a zero divisor raises
divide(a, b) ==
  CASE a.k = "err" \/ b.k = "err" -> Err
    [] IsNullish(a) \/ IsNullish(b) -> Null
    [] IsNum(a) /\ IsNum(b) -> IF b.n = 0 THEN Err ELSE Num(a.n * b.d, a.d * b.n)
    [] OTHER -> Err

MsPerHour == 1000 * 60 * 60

MsPerDay == 1000 * 60 * 60 * 24

\* $subtract; the difference of two dates is a number of milliseconds
subtract(a, b) ==
  CASE a.k = "err" \/ b.k = "err" -> Err
    [] IsNullish(a) \/ IsNullish(b) -> Null
    [] IsNum(a) /\ IsNum(b) -> Num(a.n * b.d - b.n * a.d, a.d * b.d)
    [] a.k = "date" /\ b.k = "date" -> N((a.n - b.n) * MsPerHour)
    [] OTHER -> Err

\* $add of two operands
add(a, b) ==
  CASE a.k = "err" \/ b.k = "err" -> Err
    [] IsNullish(a) \/ IsNullish(b) -> Null
    [] IsNum(a) /\ IsNum(b) -> Num(a.n * b.d + b.n * a.d, a.d * b.d)
    [] OTHER -> Err

add3(a, b, c) == add(add(a, b), c)

\* position of a value's type in the store's comparison order
TypeRank(v) ==
  CASE v.k = "missing" -> 0
    [] v.k = "null" -> 1
    [] v.k \in {"num", "nan"} -> 2
    [] v.k \in {"str", "numstr", "datestr"} -> 3
    [] v.k = "date" -> 4
    [] OTHER -> 5

\* $gt
gt(a, b) ==
  IF IsNum(a) /\ IsNum(b) THEN NumLess(b, a) ELSE TypeRank(a) > TypeRank(b)

\* $lt
lt(a, b) == gt(b, a)

\* $max: [0, v]; null and missing operands are ignored
max0(v) ==
  CASE v.k = "err" -> Err
    [] IsNullish(v) -> N(0)
    [] OTHER -> IF gt(v, N(0)) THEN v ELSE N(0)

\* $abs
abs(v) == IF IsNum(v) THEN Num(Abs(v.n), v.d) ELSE IF IsNullish(v) THEN Null ELSE Err

\* $round: [v, 2], halves to the even neighbour
round2(v) ==
  IF ~IsNum(v) THEN (IF IsNullish(v) THEN Null ELSE Err)
  ELSE LET q == (v.n * 100) \div v.d
           r == (v.n * 100) - q * v.d
           up == \/ 2 * r > v.d
                 \/ (2 * r = v.d /\ q % 2 = 1)
       IN Num(IF up THEN q + 1 ELSE q, 100)

\* truth of a value used as a $cond condition
truthy(v) == ~(IsNullish(v) \/ (IsNum(v) /\ v.n = 0))

----------------------------------------------------------------------------
(* JavaScript arithmetic used by the report functions. *)

\* parseFloat
parseFloat(v) ==
  CASE v.k = "num" -> v
    [] v.k = "numstr" -> Num(v.n, v.d)
    [] OTHER -> NaN

\* x || dflt on a number: NaN and 0 are falsy
orElse(v, dflt) == IF v.k = "nan" \/ (IsNum(v) /\ v.n = 0) THEN dflt ELSE v

\* x * y
jsMul(a, b) == IF IsNum(a) /\ IsNum(b) THEN Num(a.n * b.n, a.d * b.d) ELSE NaN

\* x / y for y # 0
jsDiv(a, b) ==
  IF IsNum(a) /\ IsNum(b) /\ b.n # 0 THEN Num(a.n * b.d, a.d * b.n) ELSE NaN

\* x > 0; false for NaN
jsPositive(v) == IsNum(v) /\ v.n > 0

\* x - y
jsSub(a, b) ==
  IF IsNum(a) /\ IsNum(b) THEN Num(a.n * b.d - b.n * a.d, a.d * b.d) ELSE NaN

\* x + y
jsAdd(a, b) ==
  IF IsNum(a) /\ IsNum(b) THEN Num(a.n * b.d + b.n * a.d, a.d * b.d) ELSE NaN

\* x < y; false for NaN
jsLess(a, b) == IsNum(a) /\ IsNum(b) /\ NumLess(a, b)

----------------------------------------------------------------------------
(* Documents.  A collaboration is                                          *)
(*   [id, projectId, talentId, taskId : STRING,                            *)
(*    amount, rebate, actualRebate, orderType, orderDate, paymentDate,     *)
(*    status : value];                                                     *)
(* a project is [id : STRING, discount, status, capitalRateId, budget :    *)
(* value, adjustments : sequence of adjustment amounts]; a capital rate    *)
(* is [id : STRING, value : value].                                        *)

\* what a field path under an unmatched $lookup evaluates to
NoProject ==
  [id |-> "", discount |-> Missing, status |-> Missing,
   capitalRateId |-> Missing, budget |-> Missing, adjustments |-> <<>>]

NoRate == [id |-> "", value |-> Missing]

\* $lookup projects by id, then $unwind preserving an empty match
projectInfo(c) ==
  IF \E i \in 1..Len(projects) : projects[i].id = c.projectId
  THEN projects[CHOOSE i \in 1..Len(projects) : projects[i].id = c.projectId]
  ELSE NoProject

\* $lookup projectCapitalRates by capitalRateId, then $unwind
capitalRateInfo(p) ==
  IF \E i \in 1..Len(rates) : Str(rates[i].id) = p.capitalRateId
  THEN rates[CHOOSE i \in 1..Len(rates) : Str(rates[i].id) = p.capitalRateId]
  ELSE NoRate

----------------------------------------------------------------------------
(* Collaborator listing (getcollaborators).  Each operator below is one    *)
(* expression of the pipeline, evaluated on the document d as the          *)
(* preceding stages left it; t is the request instant.                     *)

\* the $lookup and $unwind stages
cl_lookup(c) ==
  [projectInfo |-> projectInfo(c),
   capitalRateInfo |-> capitalRateInfo(projectInfo(c))] @@ c

cl_amountNum(d) ==
  IF d.amount \in {Null, EmptyStr} THEN N(0) ELSE toDouble(d.amount)

cl_rebateNum(d) ==
  IF d.rebate \in {Null, EmptyStr} THEN N(0) ELSE toDouble(d.rebate)

cl_projectDiscountNum(d) ==
  IF d.projectInfo.discount \in {Null, EmptyStr} THEN N(1)
  ELSE toDouble(d.projectInfo.discount)

cl_actualRebateNum(d) ==
  IF d.actualRebate \in {Null, EmptyStr} THEN Null ELSE toDouble(d.actualRebate)

cl_monthlyRatePercent(d) ==
  LET rateValue == ifNull(d.capitalRateInfo.value, Num(7, 10))
  IN IF rateValue = EmptyStr THEN Num(7, 10) ELSE toDouble(rateValue)

cl_orderDateObj(d) ==
  IF d.orderDate # Null /\ d.orderDate # EmptyStr THEN toDate(d.orderDate) ELSE Null

\* $$NOW is the instant of the request
cl_paymentDateObj(d, t) ==
  IF d.paymentDate # Null /\ d.paymentDate # EmptyStr
  THEN toDate(d.paymentDate) ELSE Date(t)

cl_income(d) == multiply3(d.amountNum, d.projectDiscountNum, Num(105, 100))

\* cl_expense without the 80% floor of the rebate tier above 20
cl_expense_uncapped(d) ==
  IF d.orderType = Str("original")
  THEN multiply(d.amountNum, Num(105, 100))
  ELSE multiply3(d.amountNum, subtract(N(1), divide(d.rebateNum, N(100))),
                 Num(105, 100))

cl_expense(d) ==
  IF d.orderType = Str("original")
  THEN multiply(d.amountNum, Num(105, 100))
  ELSE IF gt(d.rebateNum, N(20))
       THEN multiply3(d.amountNum, Num(8, 10), Num(105, 100))
       ELSE multiply3(d.amountNum, subtract(N(1), divide(d.rebateNum, N(100))),
                      Num(105, 100))

cl_rebateReceivable(d) ==
  IF d.orderType = Str("original")
  THEN multiply(d.amountNum, divide(d.rebateNum, N(100)))
  ELSE IF gt(d.rebateNum, N(20))
       THEN multiply(d.amountNum, subtract(divide(d.rebateNum, N(100)), Num(20, 100)))
       ELSE N(0)

cl_occupationDays(d) ==
  ifNull(IF truthy(d.orderDateObj)
         THEN max0(divide(subtract(d.paymentDateObj, d.orderDateObj), N(MsPerDay)))
         ELSE N(0),
         N(0))

\* cl_fundsOccupationCost with the monthly rate applied per day
cl_fundsOccupationCost_monthly(d) ==
  multiply3(d.expense, divide(d.monthlyRatePercent, N(100)), d.occupationDays)

cl_fundsOccupationCost(d) ==
  multiply3(d.expense, divide(divide(d.monthlyRatePercent, N(100)), N(30)),
            d.occupationDays)

cl_rebateForProfitCalc(d) ==
  IF d.projectInfo.status = Str("finalized")
  THEN ifNull(d.actualRebateNum, N(0))
  ELSE ifNull(d.actualRebateNum, d.rebateReceivable)

cl_grossProfit(d) ==
  add3(d.income, d.rebateForProfitCalc, multiply(d.expense, N(-1)))

cl_grossProfitMargin(d) ==
  IF d.income = N(0) THEN N(0)
  ELSE multiply(divide(d.grossProfit, d.income), N(100))

\* the six $addFields stages
cl_addFields1(d, t) ==
  [amountNum |-> cl_amountNum(d), rebateNum |-> cl_rebateNum(d),
   projectDiscountNum |-> cl_projectDiscountNum(d),
   actualRebateNum |-> cl_actualRebateNum(d),
   monthlyRatePercent |-> cl_monthlyRatePercent(d),
   orderDateObj |-> cl_orderDateObj(d),
   paymentDateObj |-> cl_paymentDateObj(d, t)] @@ d

cl_addFields2(d) ==
  [income |-> cl_income(d), expense |-> cl_expense(d),
   rebateReceivable |-> cl_rebateReceivable(d)] @@ d

cl_addFields3(d) == [occupationDays |-> cl_occupationDays(d)] @@ d

cl_addFields4(d) ==
  [fundsOccupationCost |-> cl_fundsOccupationCost(d),
   rebateForProfitCalc |-> cl_rebateForProfitCalc(d)] @@ d

cl_addFields5(d) == [grossProfit |-> cl_grossProfit(d)] @@ d

cl_addFields6(d) == [grossProfitMargin |-> cl_grossProfitMargin(d)] @@ d

\* the document of collaboration c after the last $addFields stage
cl_fields(c, t) ==
  cl_addFields6(cl_addFields5(cl_addFields4(cl_addFields3(cl_addFields2(
    cl_addFields1(cl_lookup(c), t))))))

cl_computed ==
  {"amountNum", "rebateNum", "projectDiscountNum", "actualRebateNum",
   "monthlyRatePercent", "orderDateObj", "paymentDateObj", "income", "expense",
   "rebateReceivable", "occupationDays", "fundsOccupationCost",
   "rebateForProfitCalc", "grossProfit", "grossProfitMargin"}

\* the aggregation fails when an expression raises
cl_raises(d) == \E x \in cl_computed : d[x] = Err

\* finalProjection.metrics
cl_metrics(d) ==
  [income |-> round2(d.income), expense |-> round2(d.expense),
   rebateReceivable |-> round2(d.rebateReceivable),
   fundsOccupationCost |-> round2(d.fundsOccupationCost),
   grossProfit |-> round2(d.grossProfit),
   grossProfitMargin |-> round2(d.grossProfitMargin)]

----------------------------------------------------------------------------
(* Project listing (getprojects).  d is the project document as the        *)
(* preceding stages left it; t is the request instant.                     *)

safeToDouble(field) ==
  IF field # Null /\ field # EmptyStr THEN toDouble(field) ELSE N(0)

safeToDoubleWithDefault(field, defaultValue) ==
  IF field # Null /\ field # EmptyStr THEN toDouble(field) ELSE defaultValue

\* $sum over an array: elements that are not numbers are ignored
RECURSIVE sum(_)
sum(seq) ==
  IF seq = <<>> THEN N(0)
  ELSE LET rest == sum(Tail(seq))
       IN IF Head(seq) = Err \/ rest = Err THEN Err
          ELSE IF IsNum(Head(seq)) THEN add(Head(seq), rest) ELSE rest

\* offset of the Asia/Shanghai zone from UTC, in hours
ShanghaiOffset == 8

\* $dateFromParts of the UTC year, month and day of instant t, read as a
\* wall-clock date in Asia/Shanghai
todayDateOnly(t) == Date((t \div 24) * 24 - ShanghaiOffset)

\* the two $lookup stages and the $unwind
pl_lookup(p) ==
  [collaborations |-> SelectSeq(collaborations, LAMBDA c : c.projectId = p.id),
   capitalRateInfo |-> capitalRateInfo(p)] @@ p

confirmedCollaborations(d) ==
  SelectSeq(d.collaborations,
            LAMBDA c : c.status \in {Str("confirmed"), Str("published")})

pl_monthlyRatePercent(d) ==
  ifNull(safeToDouble(d.capitalRateInfo.value), Num(7, 10))

pl_income(d, c) ==
  multiply3(safeToDouble(c.amount), safeToDoubleWithDefault(d.discount, N(1)),
            Num(105, 100))

pl_expense(c) ==
  LET amountNum == safeToDouble(c.amount)
      rebateNum == safeToDouble(c.rebate)
  IN IF amountNum = Err \/ rebateNum = Err THEN Err
     ELSE IF c.orderType = Str("original")
          THEN multiply(amountNum, Num(105, 100))
          ELSE IF gt(rebateNum, N(20))
               THEN multiply3(amountNum, Num(8, 10), Num(105, 100))
               ELSE multiply3(amountNum,
                              subtract(N(1), divide(rebateNum, N(100))),
                              Num(105, 100))

\* pl_rebateForProfitCalc without the 0.20 deduction of the tier above 20
pl_rebateForProfitCalc_full(d, c) ==
  LET actualRebate ==
        IF c.actualRebate # Null THEN safeToDouble(c.actualRebate) ELSE Null
      amountNum == safeToDouble(c.amount)
      rebateNum == safeToDouble(c.rebate)
  IN IF actualRebate = Err \/ amountNum = Err \/ rebateNum = Err THEN Err
     ELSE IF d.status = Str("finalized")
          THEN ifNull(actualRebate, N(0))
          ELSE ifNull(actualRebate,
                 IF c.orderType = Str("original")
                 THEN multiply(amountNum, divide(rebateNum, N(100)))
                 ELSE IF gt(rebateNum, N(20))
                      THEN multiply(amountNum, divide(rebateNum, N(100)))
                      ELSE N(0))

pl_rebateForProfitCalc(d, c) ==
  LET actualRebate ==
        IF c.actualRebate # Null THEN safeToDouble(c.actualRebate) ELSE Null
      amountNum == safeToDouble(c.amount)
      rebateNum == safeToDouble(c.rebate)
  IN IF actualRebate = Err \/ amountNum = Err \/ rebateNum = Err THEN Err
     ELSE IF d.status = Str("finalized")
          THEN ifNull(actualRebate, N(0))
          ELSE ifNull(actualRebate,
                 IF c.orderType = Str("original")
                 THEN multiply(amountNum, divide(rebateNum, N(100)))
                 ELSE IF gt(rebateNum, N(20))
                      THEN multiply(amountNum,
                             subtract(divide(rebateNum, N(100)), Num(20, 100)))
                      ELSE N(0))

pl_occupationDays(c, t) ==
  LET startDate ==
        IF c.orderDate # Null /\ c.orderDate # EmptyStr
        THEN toDate(c.orderDate) ELSE Null
      endDate ==
        IF c.paymentDate # Null /\ c.paymentDate # EmptyStr
        THEN toDate(c.paymentDate) ELSE todayDateOnly(t)
  IN IF startDate = Err \/ endDate = Err THEN Err
     ELSE ifNull(max0(divide(subtract(endDate, startDate), N(MsPerDay))), N(0))

\* $map over confirmedCollaborations: the first calculatedMetricsPerCollab
RECURSIVE mapMetrics(_, _, _)
mapMetrics(d, cs, t) ==
  IF cs = <<>> THEN <<>>
  ELSE <<[income |-> pl_income(d, Head(cs)),
          expense |-> pl_expense(Head(cs)),
          rebateForProfitCalc |-> pl_rebateForProfitCalc(d, Head(cs)),
          occupationDays |-> pl_occupationDays(Head(cs), t)]>>
       \o mapMetrics(d, Tail(cs), t)

pl_fundsOccupationCost(m, monthlyRatePercent) ==
  multiply3(m.expense, divide(divide(monthlyRatePercent, N(100)), N(30)),
            m.occupationDays)

\* $map over calculatedMetricsPerCollab: the second stage adds the cost
RECURSIVE mapFunds(_, _)
mapFunds(ms, monthlyRatePercent) ==
  IF ms = <<>> THEN <<>>
  ELSE <<[fundsOccupationCost |->
            pl_fundsOccupationCost(Head(ms), monthlyRatePercent)] @@ Head(ms)>>
       \o mapFunds(Tail(ms), monthlyRatePercent)

\* the values of field f of an array of records
RECURSIVE column(_, _)
column(ms, f) ==
  IF ms = <<>> THEN <<>> ELSE <<Head(ms)[f]>> \o column(Tail(ms), f)

RECURSIVE grossProfits(_)
grossProfits(ms) ==
  IF ms = <<>> THEN <<>>
  ELSE <<add3(Head(ms).income, Head(ms).rebateForProfitCalc,
              multiply(Head(ms).expense, N(-1)))>> \o grossProfits(Tail(ms))

\* the adjustment amounts above zero (below zero), the others replaced by 0
RECURSIVE positiveAmounts(_)
positiveAmounts(adj) ==
  IF adj = <<>> THEN <<>>
  ELSE <<IF gt(safeToDouble(Head(adj)), N(0)) THEN safeToDouble(Head(adj)) ELSE N(0)>>
       \o positiveAmounts(Tail(adj))

RECURSIVE negativeAmounts(_)
negativeAmounts(adj) ==
  IF adj = <<>> THEN <<>>
  ELSE <<IF lt(safeToDouble(Head(adj)), N(0)) THEN safeToDouble(Head(adj)) ELSE N(0)>>
       \o negativeAmounts(Tail(adj))

\* the $addFields stages
\* pl_addFields1 without the status filter
pl_addFields1_unfiltered(d) ==
  [monthlyRatePercent |-> pl_monthlyRatePercent(d),
   confirmedCollaborations |-> d.collaborations] @@ d

pl_addFields1(d) ==
  [monthlyRatePercent |-> pl_monthlyRatePercent(d),
   confirmedCollaborations |-> confirmedCollaborations(d)] @@ d

pl_addFields2(d, t) ==
  [calculatedMetricsPerCollab |-> mapMetrics(d, d.confirmedCollaborations, t)] @@ d

pl_addFields3(d) ==
  [d EXCEPT !.calculatedMetricsPerCollab = mapFunds(@, d.monthlyRatePercent)]

pl_addFields4(d) ==
  [metrics |->
     [projectBudget |-> safeToDouble(d.budget),
      totalCollaborators |-> N(Len(d.confirmedCollaborations)),
      totalIncomeAgg |-> sum(column(d.calculatedMetricsPerCollab, "income")),
      totalExpense |-> sum(column(d.calculatedMetricsPerCollab, "expense")),
      totalGrossProfit |-> sum(grossProfits(d.calculatedMetricsPerCollab)),
      fundsOccupationCost |->
        sum(column(d.calculatedMetricsPerCollab, "fundsOccupationCost")),
      incomeAdjustments |-> ifNull(sum(positiveAmounts(d.adjustments)), N(0)),
      expenseAdjustments |->
        abs(ifNull(sum(negativeAmounts(d.adjustments)), N(0)))]] @@ d

pl_addFields5(d) ==
  [d EXCEPT !.metrics =
     [totalIncome |-> add(@.totalIncomeAgg, @.incomeAdjustments),
      totalRebateReceivable |->
        sum(column(d.calculatedMetricsPerCollab, "rebateForProfitCalc"))] @@ @]

pl_addFields6(d) ==
  [d EXCEPT !.metrics =
     [budgetUtilization |->
        IF gt(@.projectBudget, N(0))
        THEN multiply(divide(@.totalIncome, @.projectBudget), N(100)) ELSE N(0),
      preAdjustmentProfit |-> add(@.totalGrossProfit, @.incomeAdjustments),
      totalOperationalCost |->
        add3(@.totalExpense, @.expenseAdjustments, @.fundsOccupationCost)] @@ @]

\* pl_addFields7 with the funds occupation cost left out of operationalProfit
pl_addFields7_nofunds(d) ==
  [d EXCEPT !.metrics =
     [preAdjustmentMargin |->
        IF gt(@.totalIncome, N(0))
        THEN multiply(divide(@.preAdjustmentProfit, @.totalIncome), N(100))
        ELSE N(0),
      operationalProfit |->
        subtract(@.preAdjustmentProfit, @.expenseAdjustments)] @@ @]

pl_addFields7(d) ==
  [d EXCEPT !.metrics =
     [preAdjustmentMargin |->
        IF gt(@.totalIncome, N(0))
        THEN multiply(divide(@.preAdjustmentProfit, @.totalIncome), N(100))
        ELSE N(0),
      operationalProfit |->
        subtract(@.preAdjustmentProfit,
                 add(@.expenseAdjustments, @.fundsOccupationCost))] @@ @]

pl_addFields8(d) ==
  [d EXCEPT !.metrics =
     [operationalMargin |->
        IF gt(@.totalIncome, N(0))
        THEN multiply(divide(@.operationalProfit, @.totalIncome), N(100))
        ELSE N(0)] @@ @]

\* the project document p after the last computing stage
pl_fields(p, t) ==
  pl_addFields8(pl_addFields7(pl_addFields6(pl_addFields5(pl_addFields4(
    pl_addFields3(pl_addFields2(pl_addFields1(pl_lookup(p)), t)))))))

\* the final $round stage and the $project of metrics.*
pl_metrics(r) ==
  [projectBudget |-> round2(r.projectBudget),
   totalCollaborators |-> r.totalCollaborators,
   budgetUtilization |-> round2(r.budgetUtilization),
   totalIncome |-> round2(r.totalIncome),
   totalRebateReceivable |-> round2(r.totalRebateReceivable),
   incomeAdjustments |-> round2(r.incomeAdjustments),
   totalExpense |-> round2(r.totalExpense),
   fundsOccupationCost |-> round2(r.fundsOccupationCost),
   expenseAdjustments |-> round2(r.expenseAdjustments),
   totalOperationalCost |-> round2(r.totalOperationalCost),
   preAdjustmentProfit |-> round2(r.preAdjustmentProfit),
   preAdjustmentMargin |-> round2(r.preAdjustmentMargin),
   operationalProfit |-> round2(r.operationalProfit),
   operationalMargin |-> round2(r.operationalMargin)]

pl_collabComputed ==
  {"income", "expense", "rebateForProfitCalc", "occupationDays",
   "fundsOccupationCost"}

\* the aggregation fails when an expression raises
pl_raises(d) ==
  \/ d.monthlyRatePercent = Err
  \/ \E x \in DOMAIN d.metrics : d.metrics[x] = Err
  \/ \E i \in 1..Len(d.calculatedMetricsPerCollab) :
       \E x \in pl_collabComputed : d.calculatedMetricsPerCollab[i][x] = Err

----------------------------------------------------------------------------
(* Bounds of the exploration *)

\* the first request instant, the clock step and the last instant, in hours
NowStart == 40

ClockStep == 8

MaxNow == 56

\* calendar day of instant t in UTC and in the reference zone (UTC+8)
utcDay(t) == t \div 24

shanghaiDay(t) == (t + ShanghaiOffset) \div 24

----------------------------------------------------------------------------
(* Stored documents the exploration starts from *)

BaseCollab ==
  [id |-> "c1", projectId |-> "p1", talentId |-> "t1", taskId |-> "k1",
   amount |-> N(100), rebate |-> N(25), actualRebate |-> Missing,
   orderType |-> Str("other"), orderDate |-> DateStr(0), paymentDate |-> Null,
   status |-> Str("published")]

BaseProject ==
  [id |-> "p1", discount |-> N(1), status |-> Str("executing"),
   capitalRateId |-> Str("r1"), budget |-> N(1000), adjustments |-> <<>>]

BaseRate == [id |-> "r1", value |-> Num(7, 10)]

Amounts ==
  {Missing, Null, EmptyStr, Str("abc"), N(-100), N(0), N(100), NumStr(100, 1)}

CoreAmounts == {Missing, Str("abc"), N(-100), N(0), N(100)}

Rebates == {Missing, Null, N(10), N(20), N(25), N(100)}

ActualRebates == {Missing, Null, EmptyStr, N(0), N(30)}

OrderTypes == {Str("original"), Str("other")}

ProjectStatuses == {Str("executing"), Str("finalized")}

Discounts ==
  {Missing, Null, EmptyStr, Str("abc"), N(0), Num(1, 2), N(1), NumStr(8, 10)}

Budgets == {Missing, N(0), N(1000)}

AdjustmentLists == {<<>>, <<N(-30)>>, <<N(50), N(-30), N(20)>>}

OrderDates == {Missing, Null, EmptyStr, Str("abc"), DateStr(0), DateStr(1)}

PaymentDates == {Missing, Null, EmptyStr, DateStr(0), DateStr(2)}

RateValues == {Missing, Null, EmptyStr, Str("abc"), N(0), Num(7, 10), NumStr(1, 1)}

CollabStatuses == {Str("confirmed"), Str("published"), Str("negotiating")}

\* the rebate formulas: amount, rebate, order type, actual rebate, finalization
InitRebate ==
  /\ \E a \in CoreAmounts, r \in Rebates, ot \in OrderTypes, ar \in ActualRebates :
       collaborations = <<[BaseCollab EXCEPT !.amount = a, !.rebate = r,
                                             !.orderType = ot, !.actualRebate = ar]>>
  /\ \E st \in ProjectStatuses : projects = <<[BaseProject EXCEPT !.status = st]>>
  /\ rates = <<BaseRate>>

\* income and the project ratios: amount, discount, budget, adjustments
InitIncome ==
  /\ \E a \in Amounts : collaborations = <<[BaseCollab EXCEPT !.amount = a]>>
  /\ \/ \E dc \in Discounts, b \in Budgets, adj \in AdjustmentLists :
          projects = <<[BaseProject EXCEPT !.discount = dc, !.budget = b,
                                           !.adjustments = adj]>>
     \/ projects = <<>>
  /\ rates = <<BaseRate>>

\* occupation days and the capital rate
InitOccupation ==
  /\ \E od \in OrderDates, pd \in PaymentDates :
       collaborations = <<[BaseCollab EXCEPT !.orderDate = od, !.paymentDate = pd]>>
  /\ \/ /\ projects = <<BaseProject>>
        /\ \E v \in RateValues : rates = <<[BaseRate EXCEPT !.value = v]>>
     \/ /\ \E id \in {Missing, Str("r9")} :
             projects = <<[BaseProject EXCEPT !.capitalRateId = id]>>
        /\ rates = <<BaseRate>>

\* two collaborations of one project, of any status
InitStatuses ==
  /\ \E s1 \in CollabStatuses, s2 \in CollabStatuses, a \in {N(0), N(100), N(-100)} :
       collaborations =
         <<[BaseCollab EXCEPT !.status = s1],
           [BaseCollab EXCEPT !.id = "c2", !.taskId = "k2", !.status = s2,
                              !.amount = a, !.orderType = Str("original")]>>
  /\ projects = <<BaseProject>>
  /\ rates = <<BaseRate>>

NoResp == [op |-> "none", at |-> 0, code |-> 0]

\* the requests being served at one time, and the bulk operations each of
\* them still has to apply
Requests == {"r1", "r2"}

NoneInFlight == [r \in Requests |-> <<>>]

Init ==
  /\ InitRebate \/ InitIncome \/ InitOccupation \/ InitStatuses
  /\ works = <<>>
  /\ now = NowStart
  /\ resp = NoResp
  /\ inflight = NoneInFlight
  /\ OtherCollectionsEmpty

----------------------------------------------------------------------------
(* Requests *)

\* time passes between requests
Tick ==
  /\ now + ClockStep <= MaxNow
  /\ now' = now + ClockStep
  /\ UNCHANGED <<projects, collaborations, rates, works, resp, inflight,
                 automationState, generatorState, sheetState>>

\* GET collaborators?collaborationId=id (full view)
GetCollaborators(id) ==
  LET matched == SelectSeq(collaborations, LAMBDA c : c.id = id)
  IN /\ resp' =
          IF matched = <<>>
          THEN [op |-> "getCollaborators", id |-> id, at |-> now, code |-> 404]
          ELSE LET d == cl_fields(matched[1], now)
               IN IF cl_raises(d)
                  THEN [op |-> "getCollaborators", id |-> id, at |-> now, code |-> 500]
                  ELSE [op |-> "getCollaborators", id |-> id, at |-> now, code |-> 200,
                        doc |-> matched[1],
                        project |-> d.projectInfo,
                        rate |-> d.capitalRateInfo,
                        fields |-> d,
                        metrics |-> cl_metrics(d)]
     /\ UNCHANGED <<projects, collaborations, rates, works, now, inflight,
                    automationState, generatorState, sheetState>>

\* GET projects?projectId=id (full view)
GetProjects(id) ==
  LET matched == SelectSeq(projects, LAMBDA p : p.id = id)
  IN /\ resp' =
          IF matched = <<>>
          THEN [op |-> "getProjects", id |-> id, at |-> now, code |-> 404]
          ELSE LET d == pl_fields(matched[1], now)
               IN IF pl_raises(d)
                  THEN [op |-> "getProjects", id |-> id, at |-> now, code |-> 500]
                  ELSE [op |-> "getProjects", id |-> id, at |-> now, code |-> 200,
                        project |-> matched[1],
                        rate |-> d.capitalRateInfo,
                        docs |-> d.confirmedCollaborations,
                        perCollab |-> d.calculatedMetricsPerCollab,
                        monthlyRatePercent |-> d.monthlyRatePercent,
                        rollup |-> d.metrics,
                        metrics |-> pl_metrics(d.metrics)]
     /\ UNCHANGED <<projects, collaborations, rates, works, now, inflight,
                    automationState, generatorState, sheetState>>

CollabIds == {"c1", "c2"}

ProjectIds == {"p1"}

Next ==
  \/ Tick
  \/ \E id \in CollabIds : GetCollaborators(id)
  \/ \E id \in ProjectIds : GetProjects(id)

Spec == Init /\ [][Next]_vars

----------------------------------------------------------------------------
(* Daily report (handleProjectReport) and the manualDailyUpdate import of  *)
(* syncFromFeishu.  A work is [collaborationId, projectId, talentId,       *)
(* dailyStats]; a daily stat is [date, totalViews, cpm, cpmChange,         *)
(* solution], its date the day number the 'YYYY-MM-DD' string stands for.  *)

NoCollab == [BaseCollab EXCEPT !.id = "", !.projectId = "", !.talentId = "",
                               !.taskId = ""]

NoWork ==
  [collaborationId |-> "", projectId |-> Missing, talentId |-> Missing,
   dailyStats |-> <<>>]

NoStat ==
  [date |-> 0, totalViews |-> Missing, cpm |-> Missing, cpmChange |-> Missing,
   solution |-> ""]

\* projects.findOne({id})
findProject(id) ==
  IF \E i \in 1..Len(projects) : projects[i].id = id
  THEN projects[CHOOSE i \in 1..Len(projects) :
                  /\ projects[i].id = id
                  /\ \A j \in 1..(i - 1) : projects[j].id # id]
  ELSE NoProject

\* collaborations.find({id: {$in: ids}}) read through a Map keyed by id
findCollaboration(id) ==
  LET idx == {i \in 1..Len(collaborations) : collaborations[i].id = id}
  IN IF idx = {} THEN NoCollab
     ELSE collaborations[CHOOSE i \in idx : \A j \in idx : j <= i]

\* collaborations.findOne({taskId})
findByTaskId(taskId) ==
  LET idx == {i \in 1..Len(collaborations) : collaborations[i].taskId = taskId}
  IN IF idx = {} THEN NoCollab
     ELSE collaborations[CHOOSE i \in idx : \A j \in idx : i <= j]

\* a Map built from the works read, keyed by collaborationId: the last wins
workMapGet(ws, cid) ==
  LET idx == {i \in 1..Len(ws) : ws[i].collaborationId = cid}
  IN IF idx = {} THEN NoWork ELSE ws[CHOOSE i \in idx : \A j \in idx : j <= i]

\* position of the first work matching {collaborationId: cid}, 0 when none
firstWork(ws, cid) ==
  LET idx == {i \in 1..Len(ws) : ws[i].collaborationId = cid}
  IN IF idx = {} THEN 0 ELSE CHOOSE i \in idx : \A j \in idx : i <= j

hasStat(stats, day) == \E i \in 1..Len(stats) : stats[i].date = day

\* position of the first daily stat of a date, 0 when none
firstStat(stats, day) ==
  LET idx == {i \in 1..Len(stats) : stats[i].date = day}
  IN IF idx = {} THEN 0 ELSE CHOOSE i \in idx : \A j \in idx : i <= j

\* dailyStats.find(s => s.date === day)
findStat(stats, day) ==
  IF hasStat(stats, day) THEN stats[firstStat(stats, day)] ELSE NoStat

\* formatDate(createUTCDate(v)) at instant t: a string that is not a date
\* gives the current UTC day
formatDate(v, t) == IF v.k = "datestr" THEN v.n ELSE utcDay(t)

\* $sort: {date: 1} of a $push: a stable sort of the whole array
RECURSIVE insertByDate(_, _)
insertByDate(sorted, e) ==
  IF sorted = <<>> THEN <<e>>
  ELSE IF e.date < Head(sorted).date THEN <<e>> \o sorted
       ELSE <<Head(sorted)>> \o insertByDate(Tail(sorted), e)

RECURSIVE sortByDate(_)
sortByDate(stats) ==
  IF stats = <<>> THEN <<>>
  ELSE insertByDate(sortByDate(SubSeq(stats, 1, Len(stats) - 1)),
                    stats[Len(stats)])

pullOp(cid, day) == [kind |-> "pull", collaborationId |-> cid, date |-> day]

pushOp(cid, stat, onInsert) ==
  [kind |-> "push", collaborationId |-> cid, stat |-> stat,
   onInsert |-> onInsert]

setCpmChangeOp(cid, day, value) ==
  [kind |-> "setCpmChange", collaborationId |-> cid, date |-> day,
   value |-> value]

\* applyOp with a $pull that removes nothing
applyOp_nopull(ws, op) ==
  LET i == firstWork(ws, op.collaborationId)
  IN CASE op.kind = "pull" -> ws
       [] op.kind = "push" ->
            IF i = 0
            THEN Append(ws, [collaborationId |-> op.collaborationId,
                             projectId |-> op.onInsert.projectId,
                             talentId |-> op.onInsert.talentId,
                             dailyStats |-> <<op.stat>>])
            ELSE [ws EXCEPT ![i].dailyStats = sortByDate(Append(@, op.stat))]
       [] op.kind = "setCpmChange" ->
            IF i = 0 \/ ~hasStat(ws[i].dailyStats, op.date) THEN ws
            ELSE [ws EXCEPT ![i].dailyStats[firstStat(ws[i].dailyStats, op.date)]
                              .cpmChange = op.value]

\* one updateOne of a bulkWrite applied to the works collection
applyOp(ws, op) ==
  LET i == firstWork(ws, op.collaborationId)
  IN CASE op.kind = "pull" ->
            IF i = 0 THEN ws
            ELSE [ws EXCEPT ![i].dailyStats =
                    SelectSeq(@, LAMBDA s : s.date # op.date)]
       [] op.kind = "push" ->
            IF i = 0
            THEN Append(ws, [collaborationId |-> op.collaborationId,
                             projectId |-> op.onInsert.projectId,
                             talentId |-> op.onInsert.talentId,
                             dailyStats |-> <<op.stat>>])
            ELSE [ws EXCEPT ![i].dailyStats = sortByDate(Append(@, op.stat))]
       [] op.kind = "setCpmChange" ->
            IF i = 0 \/ ~hasStat(ws[i].dailyStats, op.date) THEN ws
            ELSE [ws EXCEPT ![i].dailyStats[firstStat(ws[i].dailyStats, op.date)]
                              .cpmChange = op.value]

\* bulkWrite(ops): the operations in their order
RECURSIVE bulkWrite(_, _)
bulkWrite(ws, ops) ==
  IF ops = <<>> THEN ws ELSE bulkWrite(applyOp(ws, Head(ops)), Tail(ops))

\* bulkWrite(ops, {ordered: false}): the order of execution is not
\* guaranteed; the results of every order of the pending operations
RECURSIVE bulkWriteUnordered(_, _, _)
bulkWriteUnordered(ws, ops, pending) ==
  IF pending = {} THEN {ws}
  ELSE UNION {bulkWriteUnordered(applyOp(ws, ops[i]), ops, pending \ {i}) :
                i \in pending}

\* stat_cpm without the guard on income and totalViews
stat_cpm_unguarded(income, totalViews) ==
  jsMul(jsDiv(income, totalViews), N(1000))

\* cpm of a daily stat
stat_cpm(income, totalViews) ==
  IF jsPositive(income) /\ jsPositive(totalViews)
  THEN jsMul(jsDiv(income, totalViews), N(1000)) ELSE N(0)

NoInsertFields == [projectId |-> Missing, talentId |-> Missing]

sds_projectDiscount(project) ==
  IF project # NoProject THEN parseFloat(project.discount) ELSE N(1)

\* what saveDailyStats computes for one item of data; ws is the works
\* collection as read before the write
sds_item(item, projectDiscount, day, ws) ==
  LET collaboration == findCollaboration(item.collaborationId)
      amount == orElse(parseFloat(collaboration.amount), N(0))
      income == jsMul(jsMul(amount, projectDiscount), Num(105, 100))
      cpm == stat_cpm(income, item.totalViews)
      work == workMapGet(ws, item.collaborationId)
      yesterdayStat == findStat(work.dailyStats, day - 1)
      cpmChange == IF hasStat(work.dailyStats, day - 1)
                   THEN jsSub(cpm, yesterdayStat.cpm) ELSE Null
  IN [collaborationId |-> item.collaborationId,
      skipped |-> collaboration = NoCollab,
      collaboration |-> collaboration,
      totalViews |-> item.totalViews,
      amount |-> amount, income |-> income, cpm |-> cpm,
      cpmChange |-> cpmChange]

RECURSIVE sds_items(_, _, _, _)
sds_items(data, projectDiscount, day, ws) ==
  IF data = <<>> THEN <<>>
  ELSE <<sds_item(Head(data), projectDiscount, day, ws)>>
       \o sds_items(Tail(data), projectDiscount, day, ws)

RECURSIVE sds_bulkOps(_, _)
sds_bulkOps(items, day) ==
  IF items = <<>> THEN <<>>
  ELSE (IF Head(items).skipped THEN <<>>
        ELSE <<pullOp(Head(items).collaborationId, day),
               pushOp(Head(items).collaborationId,
                      [date |-> day, totalViews |-> Head(items).totalViews,
                       cpm |-> Head(items).cpm,
                       cpmChange |-> Head(items).cpmChange, solution |-> ""],
                      NoInsertFields)>>)
       \o sds_bulkOps(Tail(items), day)

\* POST /daily-stats {projectId, date, data}
SaveDailyStats(projectId, date, data) ==
  LET project == findProject(projectId)
      projectDiscount == sds_projectDiscount(project)
      day == formatDate(date, now)
      items == sds_items(data, projectDiscount, day, works)
  IN IF date = Missing
     THEN /\ resp' = [op |-> "saveDailyStats", at |-> now, code |-> 500]
          /\ UNCHANGED <<projects, collaborations, rates, works, now, inflight,
                         automationState, generatorState, sheetState>>
     ELSE /\ works' = bulkWrite(works, sds_bulkOps(items, day))
          /\ resp' = [op |-> "saveDailyStats", at |-> now, code |-> 200,
                      project |-> project, projectDiscount |-> projectDiscount,
                      day |-> day, items |-> items]
          /\ UNCHANGED <<projects, collaborations, rates, now, inflight,
                         automationState, generatorState, sheetState>>

\* parseInt(String(v), 10)
parseInt(v) ==
  IF v.k \in {"num", "numstr"} THEN N(v.n \div v.d) ELSE NaN

mdu_projectDiscount(project) ==
  IF project # NoProject THEN orElse(parseFloat(project.discount), N(1))
  ELSE N(1)

\* what the import computes for one row of the sheet; a skipped row
\* contributes no operation
mdu_row(row) ==
  LET totalViews == parseInt(row.views)
      collab == findByTaskId(row.taskId)
      project == findProject(collab.projectId)
      projectDiscount == mdu_projectDiscount(project)
      amount == orElse(parseFloat(collab.amount), N(0))
      income == jsMul(jsMul(amount, projectDiscount), Num(105, 100))
      cpm == stat_cpm(income, totalViews)
  IN [skipped |-> \/ row.taskId = ""
                  \/ row.timestamp \in {Missing, Null, EmptyStr}
                  \/ row.views \in {Missing, Null}
                  \/ row.timestamp.k # "datestr"
                  \/ totalViews = NaN
                  \/ collab = NoCollab,
      collaboration |-> collab, collaborationId |-> collab.id,
      project |-> project, projectDiscount |-> projectDiscount,
      day |-> row.timestamp.n, totalViews |-> totalViews,
      amount |-> amount, income |-> income, cpm |-> cpm]

RECURSIVE mdu_rows(_)
mdu_rows(rows) ==
  IF rows = <<>> THEN <<>> ELSE <<mdu_row(Head(rows))>> \o mdu_rows(Tail(rows))

RECURSIVE mdu_bulkOps(_)
mdu_bulkOps(items) ==
  IF items = <<>> THEN <<>>
  ELSE (IF Head(items).skipped THEN <<>>
        ELSE <<pullOp(Head(items).collaborationId, Head(items).day),
               pushOp(Head(items).collaborationId,
                      [date |-> Head(items).day,
                       totalViews |-> Head(items).totalViews,
                       cpm |-> Head(items).cpm, cpmChange |-> Null,
                       solution |-> ""],
                      [projectId |-> Str(Head(items).collaboration.projectId),
                       talentId |-> Str(Head(items).collaboration.talentId)])>>)
       \o mdu_bulkOps(Tail(items))

\* the cpmChange corrections of one work, from its stat at position i on
RECURSIVE mdu_workChanges(_, _)
mdu_workChanges(work, i) ==
  IF i > Len(work.dailyStats) THEN <<>>
  ELSE LET currentStat == work.dailyStats[i]
           prevStat == work.dailyStats[i - 1]
           cpmChange == IF prevStat.cpm # Null /\ currentStat.cpm # Null
                        THEN jsSub(currentStat.cpm, prevStat.cpm) ELSE Null
       IN (IF currentStat.cpmChange # cpmChange
           THEN <<setCpmChangeOp(work.collaborationId, currentStat.date,
                                 cpmChange)>>
           ELSE <<>>)
          \o mdu_workChanges(work, i + 1)

\* cpmChangeBulkOps over the works the first bulkWrite addressed
RECURSIVE mdu_cpmChangeBulkOps(_, _)
mdu_cpmChangeBulkOps(ws, ids) ==
  IF ws = <<>> THEN <<>>
  ELSE (IF Head(ws).collaborationId \in ids
        THEN mdu_workChanges(Head(ws), 2) ELSE <<>>)
       \o mdu_cpmChangeBulkOps(Tail(ws), ids)

\* the works collection after the post-processing of cpmChange
mdu_postProcess(ws, ids) ==
  LET ops == mdu_cpmChangeBulkOps(ws, ids)
  IN bulkWriteUnordered(ws, ops, DOMAIN ops)

\* performProjectSync(sheet, 'manualDailyUpdate') on the data rows of the sheet
ManualDailyUpdate(rows) ==
  LET items == mdu_rows(rows)
      bulkOps == mdu_bulkOps(items)
      ids == {bulkOps[i].collaborationId : i \in DOMAIN bulkOps}
  IN /\ \E written \in bulkWriteUnordered(works, bulkOps, DOMAIN bulkOps) :
          works' \in mdu_postProcess(written, ids)
     /\ resp' = [op |-> "manualDailyUpdate", at |-> now, code |-> 200,
                 items |-> items]
     /\ UNCHANGED <<projects, collaborations, rates, now, inflight,
                    automationState, generatorState, sheetState>>

\* the newest stat of a work up to a day: relevantStats sorted by date
\* descending, first element
latestStat(stats, day) ==
  LET idx == {i \in 1..Len(stats) : stats[i].date <= day}
  IN stats[CHOOSE i \in idx :
             \A j \in idx : \/ stats[j].date < stats[i].date
                            \/ (stats[j].date = stats[i].date /\ i <= j)]

grd_category(v) ==
  [hot |-> jsLess(N(10000000), v.totalViews),
   good |-> jsLess(v.cpm, N(20)),
   normal |-> ~jsLess(v.cpm, N(20)) /\ jsLess(v.cpm, N(40)),
   bad |-> ~jsLess(v.cpm, N(40)) /\ jsLess(v.cpm, N(100)),
   worst |-> IsNum(v.cpm) /\ ~jsLess(v.cpm, N(100))]

\* the loop over publishedCollaborations: reportVideos
RECURSIVE grd_reportVideos(_, _)
grd_reportVideos(published, day) ==
  IF published = <<>> THEN <<>>
  ELSE LET collab == Head(published)
           work == workMapGet(works, collab.id)
           dayStat == findStat(work.dailyStats, day)
           yesterdayStat == findStat(work.dailyStats, day - 1)
           video == [collaborationId |-> collab.id,
                     totalViews |-> dayStat.totalViews, cpm |-> dayStat.cpm,
                     cpmChange |-> IF hasStat(work.dailyStats, day - 1)
                                   THEN jsSub(dayStat.cpm, yesterdayStat.cpm)
                                   ELSE Null]
       IN (IF hasStat(work.dailyStats, day)
           THEN <<[video |-> video, category |-> grd_category(video)]>>
           ELSE <<>>)
          \o grd_reportVideos(Tail(published), day)

\* the loop over publishedCollaborations: overallTotalViews
RECURSIVE grd_overallTotalViews(_, _)
grd_overallTotalViews(published, day) ==
  IF published = <<>> THEN N(0)
  ELSE LET stats == workMapGet(works, Head(published).id).dailyStats
       IN jsAdd(IF \E i \in 1..Len(stats) : stats[i].date <= day
                THEN orElse(latestStat(stats, day).totalViews, N(0)) ELSE N(0),
                grd_overallTotalViews(Tail(published), day))

RECURSIVE grd_totalAmount(_, _)
grd_totalAmount(published, projectDiscount) ==
  IF published = <<>> THEN N(0)
  ELSE jsAdd(jsMul(jsMul(orElse(parseFloat(Head(published).amount), N(0)),
                         projectDiscount), Num(105, 100)),
             grd_totalAmount(Tail(published), projectDiscount))

RECURSIVE grd_totalViews(_)
grd_totalViews(videos) ==
  IF videos = <<>> THEN N(0)
  ELSE jsAdd(orElse(Head(videos).video.totalViews, N(0)),
             grd_totalViews(Tail(videos)))

grd_averageCPM(totalAmount, overallTotalViews) ==
  IF jsPositive(totalAmount) /\ jsPositive(overallTotalViews)
  THEN jsMul(jsDiv(totalAmount, overallTotalViews), N(1000)) ELSE N(0)

\* GET /project-report?projectId=..&date=..
GetReportData(projectId, date) ==
  LET project == findProject(projectId)
      projectDiscount == orElse(parseFloat(project.discount), N(1))
      scheduled ==
        SelectSeq(collaborations,
                  LAMBDA c : /\ c.projectId = projectId
                             /\ c.status \in {Str("confirmed"), Str("published")})
      published == SelectSeq(scheduled, LAMBDA c : c.status = Str("published"))
      totalTalents ==
        Cardinality({scheduled[i].talentId : i \in 1..Len(scheduled)})
      day == IF date \in {Missing, Null, EmptyStr} THEN utcDay(now)
             ELSE formatDate(date, now)
      reportVideos == grd_reportVideos(published, day)
      totalAmount == grd_totalAmount(published, projectDiscount)
      overallTotalViews == grd_overallTotalViews(published, day)
  IN /\ resp' =
          IF project = NoProject
          THEN [op |-> "getReportData", at |-> now, code |-> 200,
                project |-> project, empty |-> TRUE]
          ELSE IF published = <<>>
          THEN [op |-> "getReportData", at |-> now, code |-> 200,
                project |-> project, empty |-> FALSE,
                projectDiscount |-> projectDiscount, day |-> day,
                overview |-> [totalTalents |-> totalTalents,
                              publishedVideos |-> 0, totalAmount |-> N(0),
                              totalViews |-> N(0), averageCPM |-> N(0)],
                reportVideos |-> <<>>, missingDataVideos |-> <<>>]
          ELSE [op |-> "getReportData", at |-> now, code |-> 200,
                project |-> project, empty |-> FALSE,
                projectDiscount |-> projectDiscount, day |-> day,
                overview |-> [totalTalents |-> totalTalents,
                              publishedVideos |-> Len(published),
                              totalAmount |-> totalAmount,
                              totalViews |-> grd_totalViews(reportVideos),
                              averageCPM |->
                                grd_averageCPM(totalAmount, overallTotalViews)],
                overallTotalViews |-> overallTotalViews,
                reportVideos |-> reportVideos,
                missingDataVideos |->
                  SelectSeq(published,
                            LAMBDA c : ~hasStat(workMapGet(works, c.id).dailyStats,
                                                day))]
     /\ UNCHANGED <<projects, collaborations, rates, works, now, inflight,
                    automationState, generatorState, sheetState>>

----------------------------------------------------------------------------
(* Stored documents and requests of the daily-report exploration *)

StatsDiscounts ==
  {Missing, Null, EmptyStr, Str("abc"), N(0), N(1), NumStr(1, 2)}

StatsAmounts == {N(0), NumStr(200, 1), Str("abc")}

SecondCollab ==
  [BaseCollab EXCEPT !.id = "c2", !.talentId = "t2", !.taskId = "k2",
                     !.amount = N(50), !.status = Str("confirmed")]

InitStats ==
  /\ \/ /\ projects \in {<<>>} \cup
                        {<<[BaseProject EXCEPT !.discount = d]>> :
                           d \in StatsDiscounts}
        /\ collaborations = <<BaseCollab, SecondCollab>>
     \/ /\ projects = <<[BaseProject EXCEPT !.discount = Num(1, 2)]>>
        /\ collaborations \in
             {<<[BaseCollab EXCEPT !.amount = a], SecondCollab>> :
                a \in StatsAmounts} \cup
             {<<[BaseCollab EXCEPT !.status = Str("confirmed")], SecondCollab>>}
  /\ rates = <<BaseRate>>
  /\ works = <<>>
  /\ now = NowStart
  /\ resp = NoResp
  /\ inflight = NoneInFlight
  /\ OtherCollectionsEmpty

StatDays == {DateStr(1), DateStr(2)}

SaveDates == StatDays \cup {Str("abc"), Missing}

SaveItems ==
  [collaborationId : {"c1"}, totalViews : {N(0), N(5000)}] \cup
  {[collaborationId |-> "c9", totalViews |-> N(5000)]}

SaveData ==
  {<<i>> : i \in SaveItems} \cup
  {<<[collaborationId |-> "c1", totalViews |-> N(5000)],
     [collaborationId |-> "c1", totalViews |-> N(0)]>>}

ReportDates == StatDays \cup {Missing}

GoodRows ==
  {[taskId |-> "k1", timestamp |-> DateStr(1), views |-> N(5000)],
   [taskId |-> "k1", timestamp |-> DateStr(2), views |-> NumStr(10000, 1)]}

ImportRows ==
  GoodRows \cup
  {[taskId |-> "", timestamp |-> DateStr(2), views |-> N(5000)],
   [taskId |-> "k9", timestamp |-> DateStr(1), views |-> N(5000)],
   [taskId |-> "k1", timestamp |-> Missing, views |-> N(5000)],
   [taskId |-> "k1", timestamp |-> Str("abc"), views |-> N(5000)],
   [taskId |-> "k1", timestamp |-> DateStr(1), views |-> Missing],
   [taskId |-> "k1", timestamp |-> DateStr(1), views |-> Str("abc")]}

Imports ==
  {<<r>> : r \in ImportRows} \cup
  {<<[taskId |-> "k1", timestamp |-> DateStr(2), views |-> NumStr(10000, 1)],
     [taskId |-> "k1", timestamp |-> DateStr(1), views |-> N(5000)]>>}

NextStats ==
  \/ \E id \in ProjectIds, date \in SaveDates, data \in SaveData :
       SaveDailyStats(id, date, data)
  \/ \E rows \in Imports : ManualDailyUpdate(rows)
  \/ \E id \in ProjectIds, date \in ReportDates : GetReportData(id, date)

SpecStats == InitStats /\ [][NextStats]_vars

\* the daily report alone: saves and reads, without the sheet import
NextSaves ==
  \/ \E id \in ProjectIds, date \in SaveDates, data \in SaveData :
       SaveDailyStats(id, date, data)
  \/ \E id \in ProjectIds, date \in ReportDates : GetReportData(id, date)

SpecSaves == InitStats /\ [][NextSaves]_vars

----------------------------------------------------------------------------
(* Concurrent saves.  saveDailyStats reads the project, the collaborations *)
(* and the works, builds its bulk operations and hands them to bulkWrite,  *)
(* which applies them one update at a time; the updates of another request *)
(* may be applied in between.                                              *)

InitConcurrent ==
  /\ projects = <<BaseProject>>
  /\ collaborations = <<BaseCollab, SecondCollab>>
  /\ rates = <<BaseRate>>
  /\ works = <<>>
  /\ now = NowStart
  /\ resp = NoResp
  /\ inflight = NoneInFlight
  /\ OtherCollectionsEmpty

ConcurrentData ==
  {<<[collaborationId |-> "c1", totalViews |-> v]>> : v \in {N(5000), N(10000)}}

\* request r arrives: the reads and the construction of bulkOps
BeginSave(r, projectId, date, data) ==
  LET project == findProject(projectId)
      day == formatDate(date, now)
      items == sds_items(data, sds_projectDiscount(project), day, works)
      bulkOps == sds_bulkOps(items, day)
  IN /\ inflight[r] = <<>>
     /\ inflight' = [inflight EXCEPT ![r] = bulkOps]
     /\ resp' = IF bulkOps = <<>>
                THEN [op |-> "saveDailyStats", at |-> now, code |-> 200,
                      request |-> r]
                ELSE resp
     /\ UNCHANGED <<projects, collaborations, rates, works, now,
                    automationState, generatorState, sheetState>>

\* bulkWrite of request r applies its next update; the response follows the
\* last one
StepSave(r) ==
  /\ inflight[r] # <<>>
  /\ works' = applyOp(works, Head(inflight[r]))
  /\ inflight' = [inflight EXCEPT ![r] = Tail(@)]
  /\ resp' = IF Len(inflight[r]) = 1
             THEN [op |-> "saveDailyStats", at |-> now, code |-> 200,
                   request |-> r]
             ELSE resp
  /\ UNCHANGED <<projects, collaborations, rates, now,
                 automationState, generatorState, sheetState>>

NextConcurrent ==
  \/ \E r \in Requests, id \in ProjectIds, date \in StatDays,
        data \in ConcurrentData : BeginSave(r, id, date, data)
  \/ \E r \in Requests : StepSave(r)

SpecConcurrent == InitConcurrent /\ [][NextConcurrent]_vars

----------------------------------------------------------------------------
(* updateCollaborator: PUT of a partial update to one collaboration.  Of    *)
(* the whitelisted fields the model carries status, publishDate, videoId   *)
(* and actualRebate; updateFields maps each of them to the value sent, an  *)
(* absent key being Missing.                                               *)

ALLOWED_UPDATE_FIELDS == {"status", "publishDate", "videoId", "actualRebate"}

REBATE_RELATED_FIELDS == {"actualRebate"}

\* the paths an update can write
uc_paths == ALLOWED_UPDATE_FIELDS \cup {"updatedAt", "discrepancyReasonUpdatedAt"}

\* JavaScript truthiness of a request value
jsTruthy(v) ==
  /\ v \notin {Missing, Null, EmptyStr}
  /\ v.k # "nan"
  /\ ~(IsNum(v) /\ v.n = 0)

hasOwnProperty(updateFields, field) == updateFields[field] # Missing

\* the loop over the whitelist: $set
uc_loopSet(updateFields) ==
  [f \in uc_paths |->
     IF f \in ALLOWED_UPDATE_FIELDS /\ hasOwnProperty(updateFields, f)
        /\ updateFields[f] \notin {Null, EmptyStr}
     THEN updateFields[f] ELSE Missing]

\* the loop over the whitelist: $unset
uc_loopUnset(updateFields) ==
  {f \in ALLOWED_UPDATE_FIELDS :
     hasOwnProperty(updateFields, f) /\ updateFields[f] \in {Null, EmptyStr}}

hasValidFields(updateFields) ==
  \E f \in ALLOWED_UPDATE_FIELDS : hasOwnProperty(updateFields, f)

hasRebateRelatedUpdate(updateFields) ==
  \E f \in REBATE_RELATED_FIELDS : hasOwnProperty(updateFields, f)

\* $set after the rebate timestamp
uc_rebateSet(updateFields, t) ==
  IF hasRebateRelatedUpdate(updateFields) /\ updateFields.actualRebate # Null
  THEN [uc_loopSet(updateFields) EXCEPT !.discrepancyReasonUpdatedAt = Date(t)]
  ELSE uc_loopSet(updateFields)

\* $unset after the rebate timestamp
uc_unset(updateFields) ==
  IF hasRebateRelatedUpdate(updateFields) /\ updateFields.actualRebate = Null
  THEN uc_loopUnset(updateFields) \cup {"discrepancyReasonUpdatedAt"}
  ELSE uc_loopUnset(updateFields)

\* a publish date sets the status to published unless the request sets one
uc_autoStatus(updateFields, set) ==
  IF jsTruthy(updateFields.publishDate)
     /\ updateFields.status # Str("published")
     /\ ~jsTruthy(set.status)
  THEN [set EXCEPT !.status = Str("published")]
  ELSE set

\* $set of the final update, with the general timestamp
uc_set(updateFields, t) ==
  LET set == uc_autoStatus(updateFields, uc_rebateSet(updateFields, t))
  IN IF \E f \in uc_paths : set[f] # Missing
     THEN [set EXCEPT !.updatedAt = Date(t)]
     ELSE set

\* the store rejects an update that sets and unsets one path
uc_conflict(set, unset) == \E f \in unset : set[f] # Missing

\* updateOne({id}, {$set, $unset}) on the matched document
uc_apply(c, set, unset) ==
  [f \in DOMAIN c |->
     IF f \in unset THEN Missing
     ELSE IF f \in uc_paths /\ set[f] # Missing THEN set[f]
     ELSE c[f]]

uc_updateOne(id, set, unset) ==
  LET idx == {i \in 1..Len(collaborations) : collaborations[i].id = id}
      first == CHOOSE i \in idx : \A j \in idx : i <= j
  IN [collaborations EXCEPT ![first] = uc_apply(@, set, unset)]

uc_response(code, id, updateFields) ==
  [op |-> "updateCollaborator", at |-> now, code |-> code, id |-> id,
   updateFields |-> updateFields]

\* v3.0: the work record created on the first publish date or video id
uc_createWork(cs, id, updateFields) ==
  LET idx == {i \in 1..Len(cs) : cs[i].id = id}
      collaborationRecord == cs[CHOOSE i \in idx : \A j \in idx : i <= j]
  IN IF (jsTruthy(updateFields.publishDate) \/ jsTruthy(updateFields.videoId))
        /\ firstWork(works, id) = 0
     THEN Append(works, [collaborationId |-> collaborationRecord.id,
                         projectId |-> Str(collaborationRecord.projectId),
                         talentId |-> Str(collaborationRecord.talentId),
                         dailyStats |-> <<>>])
     ELSE works

\* the status code the handler answers with
uc_statusCode(id, updateFields) ==
  CASE id = "" -> 400
    [] ~hasValidFields(updateFields) -> 400
    [] uc_conflict(uc_set(updateFields, now), uc_unset(updateFields)) -> 500
    [] findCollaboration(id) = NoCollab -> 404
    [] OTHER -> 200

\* the collaborations after the handler
uc_collaborations(id, updateFields) ==
  IF uc_statusCode(id, updateFields) = 200
  THEN uc_updateOne(id, uc_set(updateFields, now), uc_unset(updateFields))
  ELSE collaborations

\* PUT update-collaborator, v3.0
UpdateCollaborator(id, updateFields) ==
  /\ collaborations' = uc_collaborations(id, updateFields)
  /\ works' = IF uc_statusCode(id, updateFields) = 200
              THEN uc_createWork(uc_collaborations(id, updateFields), id,
                                 updateFields)
              ELSE works
  /\ resp' = uc_response(uc_statusCode(id, updateFields), id, updateFields)
  /\ UNCHANGED <<projects, rates, now, inflight,
                 automationState, generatorState, sheetState>>

\* PUT update-collaborator, v2.0
UpdateCollaboratorV2(id, updateFields) ==
  /\ collaborations' = uc_collaborations(id, updateFields)
  /\ resp' = uc_response(uc_statusCode(id, updateFields), id, updateFields)
  /\ UNCHANGED <<projects, rates, works, now, inflight,
                 automationState, generatorState, sheetState>>

UpdatableCollab ==
  [publishDate |-> Missing, videoId |-> Missing, updatedAt |-> Missing,
   discrepancyReasonUpdatedAt |-> Missing] @@ BaseCollab

InitUpdates ==
  /\ projects = <<BaseProject>>
  /\ \E s \in {Str("confirmed"), Str("published")} :
       collaborations = <<[UpdatableCollab EXCEPT !.status = s]>>
  /\ rates = <<BaseRate>>
  /\ works = <<>>
  /\ now = NowStart
  /\ resp = NoResp
  /\ inflight = NoneInFlight
  /\ OtherCollectionsEmpty

UpdateRequests ==
  [status : {Missing, Null, Str("confirmed"), Str("published")},
   publishDate : {Missing, EmptyStr, DateStr(1)},
   videoId : {Missing, Str("v1")},
   actualRebate : {Missing, Null, N(30)}]

\* every request for the stored collaboration; one request without an id and
\* one for an id that is not stored
UpdateInputs ==
  {<<"c1", updateFields>> : updateFields \in UpdateRequests}
  \cup {<<id, [status |-> Missing, publishDate |-> DateStr(1),
               videoId |-> Missing, actualRebate |-> Missing]>> :
          id \in {"", "c9"}}

NextUpdates ==
  \/ \E in \in UpdateInputs : UpdateCollaborator(in[1], in[2])
  \/ \E in \in UpdateInputs : UpdateCollaboratorV2(in[1], in[2])

SpecUpdates == InitUpdates /\ [][NextUpdates]_vars

----------------------------------------------------------------------------
(* The collaborator listing with its query parameters.  A parameter that   *)
(* the request does not carry is the empty string; page, limit, sortBy and *)
(* order keep their defaults, so one page holds every matched document.    *)

isGlobalQueryAllowed(params) == params.allowGlobal = "true"

hasRequiredFilter(params) == params.projectId # "" \/ params.collaborationId # ""

\* the heavy-query guard
gc_rejected(params) ==
  params.view # "simple" /\ ~hasRequiredFilter(params)
  /\ ~isGlobalQueryAllowed(params)

\* the documents the query selects; every document when the query is {}
gc_matched(params) ==
  SelectSeq(collaborations,
            LAMBDA c : /\ (params.projectId # "" => c.projectId = params.projectId)
                       /\ (params.collaborationId # "" => c.id = params.collaborationId))

simpleProjection(c) ==
  [id |-> c.id, talentId |-> c.talentId, status |-> c.status,
   projectId |-> c.projectId]

\* the pipeline's output for the matched documents
gc_paginatedResults(matched, t) ==
  [i \in 1..Len(matched) |->
     [doc |-> matched[i], metrics |-> cl_metrics(cl_fields(matched[i], t))]]

\* queried: the request reached the collection
gc_response(code, params, queried, data) ==
  [op |-> "listCollaborators", at |-> now, code |-> code, params |-> params,
   queried |-> queried, data |-> data]

\* GET collaborators with the given query parameters
ListCollaborators(params) ==
  LET matched == gc_matched(params)
  IN /\ resp' =
          IF gc_rejected(params)
          THEN gc_response(400, params, FALSE, <<>>)
          ELSE IF params.view = "simple"
          THEN gc_response(200, params, TRUE,
                           [i \in 1..Len(matched) |-> simpleProjection(matched[i])])
          ELSE IF \E i \in 1..Len(matched) : cl_raises(cl_fields(matched[i], now))
          THEN gc_response(500, params, TRUE, <<>>)
          ELSE IF params.collaborationId # "" /\ matched = <<>>
          THEN gc_response(404, params, TRUE, <<>>)
          ELSE IF params.collaborationId # ""
          THEN gc_response(200, params, TRUE,
                           <<gc_paginatedResults(matched, now)[1]>>)
          ELSE gc_response(200, params, TRUE, gc_paginatedResults(matched, now))
     /\ UNCHANGED <<projects, collaborations, rates, works, now, inflight,
                    automationState, generatorState, sheetState>>

ListingParams ==
  [projectId : {"", "p1", "p9"},
   collaborationId : {"", "c1", "c9"},
   view : {"", "simple"},
   allowGlobal : {"", "true", "false"}]

InitListing ==
  /\ \/ InitStatuses
     \/ /\ \E a \in {Missing, Str("abc")} :
             collaborations = <<[BaseCollab EXCEPT !.amount = a]>>
        /\ projects = <<BaseProject>>
        /\ rates = <<BaseRate>>
  /\ works = <<>>
  /\ now = NowStart
  /\ resp = NoResp
  /\ inflight = NoneInFlight
  /\ OtherCollectionsEmpty

NextListing == \E params \in ListingParams : ListCollaborators(params)

SpecListing == InitListing /\ [][NextListing]_vars

----------------------------------------------------------------------------
(* automation-tasks and automation-jobs-update.  A job is                  *)
(* [_id, status, totalTasks, successTasks, failedTasks]; a task is         *)
(* [_id, jobId, status], jobId = "" standing for null.  An id is valid     *)
(* when it is not the empty string.                                        *)

TaskIds == {"t1", "t2"}

JobIds == {"j1"}

TaskStatuses == {"pending", "processing", "completed", "failed"}

IsValidId(id) == id # ""

tasksOfJob(ts, jobId) == SelectSeq(ts, LAMBDA t : t.jobId = jobId)

countStatus(ts, status) == Len(SelectSeq(ts, LAMBDA t : t.status = status))

findById(coll, id) == SelectSeq(coll, LAMBDA x : x._id = id)

\* the $group stage of statsPipeline
statsPipeline(ts, jobId) ==
  LET mine == tasksOfJob(ts, jobId)
  IN [totalTasks |-> Len(mine),
      successTasks |-> countStatus(mine, "completed"),
      failedTasks |-> countStatus(mine, "failed"),
      pendingTasks |-> countStatus(mine, "pending"),
      processingTasks |-> countStatus(mine, "processing")]

newStatus(stats) ==
  IF stats.totalTasks = 0 THEN "awaiting_review"
  ELSE IF stats.pendingTasks = 0 /\ stats.processingTasks = 0
       THEN "awaiting_review"
       ELSE "processing"

\* the jobs collection after recalculateAndSyncJobStats(jobId), the tasks
\* collection being ts
recalculateAndSyncJobStats(jobId, ts) ==
  IF ~IsValidId(jobId) THEN jobs
  ELSE LET stats == statsPipeline(ts, jobId)
       IN [i \in 1..Len(jobs) |->
             IF jobs[i]._id = jobId
             THEN [jobs[i] EXCEPT !.status = newStatus(stats),
                                  !.totalTasks = stats.totalTasks,
                                  !.successTasks = stats.successTasks,
                                  !.failedTasks = stats.failedTasks]
             ELSE jobs[i]]

at_response(op, code, id, jobId) ==
  [op |-> op, at |-> now, code |-> code, id |-> id, jobId |-> jobId]

\* POST automation-tasks: the new task gets an unused _id
CreateTask(workflowId, xingtuId, jobId) ==
  LET unused == {id \in TaskIds : findById(automationTasks, id) = <<>>}
      newId == CHOOSE id \in unused : TRUE
  IN /\ (workflowId # "" /\ xingtuId # "") => unused # {}
     /\ IF workflowId = "" \/ xingtuId = ""
        THEN /\ resp' = at_response("createTask", 400, "", jobId)
             /\ UNCHANGED automationTasks
        ELSE /\ automationTasks' =
                  Append(automationTasks,
                         [_id |-> newId, jobId |-> jobId, status |-> "pending"])
             /\ resp' = at_response("createTask", 201, newId, jobId)
     /\ UNCHANGED <<projects, collaborations, rates, works, now, inflight, jobs,
                    generatorState, sheetState>>

\* PUT automation-tasks?id=taskId with body {status}
UpdateTask(taskId, status) ==
  LET taskBeforeUpdate == findById(automationTasks, taskId)
      jobId == IF taskBeforeUpdate = <<>> THEN "" ELSE taskBeforeUpdate[1].jobId
      updated == [i \in 1..Len(automationTasks) |->
                    IF automationTasks[i]._id = taskId
                    THEN [automationTasks[i] EXCEPT !.status = status]
                    ELSE automationTasks[i]]
  IN /\ IF ~IsValidId(taskId)
        THEN /\ resp' = at_response("updateTask", 400, taskId, "")
             /\ UNCHANGED <<automationTasks, jobs>>
        ELSE IF taskBeforeUpdate = <<>>
        THEN /\ resp' = at_response("updateTask", 404, taskId, "")
             /\ UNCHANGED <<automationTasks, jobs>>
        ELSE /\ automationTasks' = updated
             /\ jobs' = recalculateAndSyncJobStats(jobId, updated)
             /\ resp' = at_response("updateTask", 200, taskId, jobId)
     /\ UNCHANGED <<projects, collaborations, rates, works, now, inflight,
                    generatorState, sheetState>>

\* PUT automation-tasks?id=taskId with body {action: 'rerun'}
RerunTask(taskId) ==
  LET taskBeforeUpdate == findById(automationTasks, taskId)
      jobId == IF taskBeforeUpdate = <<>> THEN "" ELSE taskBeforeUpdate[1].jobId
      updated == [i \in 1..Len(automationTasks) |->
                    IF automationTasks[i]._id = taskId
                    THEN [automationTasks[i] EXCEPT !.status = "pending"]
                    ELSE automationTasks[i]]
  IN /\ IF ~IsValidId(taskId)
        THEN /\ resp' = at_response("rerunTask", 400, taskId, "")
             /\ UNCHANGED <<automationTasks, jobs>>
        ELSE IF taskBeforeUpdate = <<>>
        THEN /\ resp' = at_response("rerunTask", 404, taskId, "")
             /\ UNCHANGED <<automationTasks, jobs>>
        ELSE /\ automationTasks' = updated
             /\ jobs' = recalculateAndSyncJobStats(jobId, updated)
             /\ resp' = at_response("rerunTask", 200, taskId, jobId)
     /\ UNCHANGED <<projects, collaborations, rates, works, now, inflight,
                    generatorState, sheetState>>

\* DELETE automation-tasks?id=taskId
DeleteTask(taskId) ==
  LET taskToDelete == findById(automationTasks, taskId)
      jobIdForDelete == IF taskToDelete = <<>> THEN "" ELSE taskToDelete[1].jobId
      remaining == SelectSeq(automationTasks, LAMBDA t : t._id # taskId)
  IN /\ IF ~IsValidId(taskId)
        THEN /\ resp' = at_response("deleteTask", 400, taskId, "")
             /\ UNCHANGED <<automationTasks, jobs>>
        ELSE IF taskToDelete = <<>>
        THEN /\ resp' = at_response("deleteTask", 204, taskId, "")
             /\ UNCHANGED <<automationTasks, jobs>>
        ELSE /\ automationTasks' = remaining
             /\ jobs' = recalculateAndSyncJobStats(jobIdForDelete, remaining)
             /\ resp' = at_response("deleteTask", 204, taskId, jobIdForDelete)
     /\ UNCHANGED <<projects, collaborations, rates, works, now, inflight,
                    generatorState, sheetState>>

\* PUT automation-jobs-update?id=id with body {status}
UpdateJob(id, status) ==
  /\ IF ~IsValidId(id) \/ status = ""
     THEN /\ resp' = at_response("updateJob", 400, id, id)
          /\ UNCHANGED jobs
     ELSE IF findById(jobs, id) = <<>>
     THEN /\ resp' = at_response("updateJob", 404, id, id)
          /\ UNCHANGED jobs
     ELSE /\ jobs' = [i \in 1..Len(jobs) |->
                        IF jobs[i]._id = id
                        THEN [jobs[i] EXCEPT !.status = status] ELSE jobs[i]]
          /\ resp' = at_response("updateJob", 200, id, id)
  /\ UNCHANGED <<projects, collaborations, rates, works, now, inflight,
                 automationTasks, generatorState, sheetState>>

deleteJobOp(jobId) == [kind |-> "deleteJob", collaborationId |-> "", jobId |-> jobId]

\* POST or DELETE automation-jobs-update?id=id, up to the count of the
\* associated tasks in safeDeleteJob
BeginDeleteJob(r, id) ==
  LET associatedTasksCount == Len(tasksOfJob(automationTasks, id))
  IN /\ inflight[r] = <<>>
     /\ IF ~IsValidId(id)
        THEN /\ resp' = at_response("deleteJob", 400, id, id)
             /\ UNCHANGED inflight
        ELSE IF associatedTasksCount > 0
        THEN /\ resp' = at_response("deleteJob", 409, id, id)
             /\ UNCHANGED inflight
        ELSE /\ inflight' = [inflight EXCEPT ![r] = <<deleteJobOp(id)>>]
             /\ UNCHANGED resp
     /\ UNCHANGED <<projects, collaborations, rates, works, now,
                    automationState, generatorState, sheetState>>

\* safeDeleteJob: jobsCollection.deleteOne and the response
FinishDeleteJob(r) ==
  /\ inflight[r] # <<>>
  /\ Head(inflight[r]).kind = "deleteJob"
  /\ LET jobId == Head(inflight[r]).jobId
     IN /\ jobs' = SelectSeq(jobs, LAMBDA j : j._id # jobId)
        /\ resp' = at_response("deleteJob",
                               IF findById(jobs, jobId) = <<>> THEN 404 ELSE 204,
                               jobId, jobId)
  /\ inflight' = [inflight EXCEPT ![r] = Tail(@)]
  /\ UNCHANGED <<projects, collaborations, rates, works, now, automationTasks,
                 generatorState, sheetState>>

\* a job whose counts agree with its tasks
syncedJob(id, ts) ==
  LET stats == statsPipeline(ts, id)
  IN [_id |-> id, status |-> newStatus(stats), totalTasks |-> stats.totalTasks,
      successTasks |-> stats.successTasks, failedTasks |-> stats.failedTasks]

InitAutomation ==
  /\ projects = <<>>
  /\ collaborations = <<>>
  /\ rates = <<>>
  /\ works = <<>>
  /\ now = NowStart
  /\ resp = NoResp
  /\ inflight = NoneInFlight
  /\ automationTasks \in
       {<<>>, <<[_id |-> "t1", jobId |-> "j1", status |-> "processing"]>>}
  /\ jobs = <<syncedJob("j1", automationTasks)>>
  /\ tasks = <<>>
  /\ taskRunLogs = <<>>
  /\ notifications = <<>>
  /\ generatedSheets = <<>>
  /\ talents = <<>>

NextAutomation ==
  \/ \E workflowId \in {"", "w1"}, jobId \in {"", "j1"} :
       CreateTask(workflowId, "x1", jobId)
  \/ \E taskId \in TaskIds \cup {""}, status \in TaskStatuses :
       UpdateTask(taskId, status)
  \/ \E taskId \in TaskIds \cup {""} : RerunTask(taskId)
  \/ \E taskId \in TaskIds \cup {""} : DeleteTask(taskId)
  \/ \E id \in JobIds \cup {""}, status \in {"", "paused"} : UpdateJob(id, status)
  \/ \E r \in Requests, id \in JobIds \cup {""} : BeginDeleteJob(r, id)
  \/ \E r \in Requests : FinishDeleteJob(r)

SpecAutomation == InitAutomation /\ [][NextAutomation]_vars

----------------------------------------------------------------------------
(* Concurrent updateCollaborator requests.  v3.0 looks for the works       *)
(* record of the collaboration and inserts one when it finds none; other   *)
(* requests may write between the lookup and the insert.                   *)

insertWorkOp(collaborationRecord) ==
  [kind |-> "insertWork", collaborationId |-> collaborationRecord.id,
   work |-> [collaborationId |-> collaborationRecord.id,
             projectId |-> Str(collaborationRecord.projectId),
             talentId |-> Str(collaborationRecord.talentId),
             dailyStats |-> <<>>]]

\* request r arrives: the handler up to worksCollection.findOne
BeginUpdateCollaborator(r, id, updateFields) ==
  LET code == uc_statusCode(id, updateFields)
      isVideoPublished ==
        jsTruthy(updateFields.publishDate) \/ jsTruthy(updateFields.videoId)
      workExists == firstWork(works, id) # 0
      inserts == code = 200 /\ isVideoPublished /\ ~workExists
  IN /\ inflight[r] = <<>>
     /\ collaborations' = uc_collaborations(id, updateFields)
     /\ inflight' = IF inserts
                    THEN [inflight EXCEPT ![r] =
                            <<insertWorkOp(findCollaboration(id))>>]
                    ELSE inflight
     /\ resp' = IF inserts THEN resp ELSE uc_response(code, id, updateFields)
     /\ UNCHANGED <<projects, rates, works, now,
                    automationState, generatorState, sheetState>>

\* worksCollection.insertOne(newWork) of request r and its response
FinishUpdateCollaborator(r) ==
  /\ inflight[r] # <<>>
  /\ Head(inflight[r]).kind = "insertWork"
  /\ works' = Append(works, Head(inflight[r]).work)
  /\ inflight' = [inflight EXCEPT ![r] = Tail(@)]
  /\ resp' = [op |-> "updateCollaborator", at |-> now, code |-> 200,
              id |-> Head(inflight[r]).collaborationId, request |-> r]
  /\ UNCHANGED <<projects, collaborations, rates, now,
                 automationState, generatorState, sheetState>>

InitConcurrentUpdates ==
  /\ projects = <<BaseProject>>
  /\ collaborations = <<[UpdatableCollab EXCEPT !.status = Str("confirmed")]>>
  /\ rates = <<BaseRate>>
  /\ works = <<>>
  /\ now = NowStart
  /\ resp = NoResp
  /\ inflight = NoneInFlight
  /\ OtherCollectionsEmpty

PublishRequests ==
  {[status |-> Missing, publishDate |-> pd, videoId |-> v,
    actualRebate |-> Missing] :
     pd \in {Missing, DateStr(1)}, v \in {Missing, Str("v1")}}

NextConcurrentUpdates ==
  \/ \E r \in Requests, updateFields \in PublishRequests :
       BeginUpdateCollaborator(r, "c1", updateFields)
  \/ \E r \in Requests : FinishUpdateCollaborator(r)
  \/ \E r \in Requests, data \in ConcurrentData :
       BeginSave(r, "p1", DateStr(1), data)
  \/ \E r \in Requests :
       /\ inflight[r] # <<>>
       /\ Head(inflight[r]).kind \in {"pull", "push"}
       /\ StepSave(r)

SpecConcurrentUpdates == InitConcurrentUpdates /\ [][NextConcurrentUpdates]_vars

----------------------------------------------------------------------------
(* generated-sheets-manager: the generated_sheets collection.  A record   *)
(* keeps _id, projectId, sheetToken, createdBy and createdAt; fileName    *)
(* and sheetUrl are copied through and are left out.  An absent or empty  *)
(* field of a request is "".                                              *)

MaxSheets == 3
SheetTokens == {"s1", "s2"}

\* the _id the store gives the k-th record inserted into coll
newSheetId(coll, k) ==
  LET used == {coll[i]._id : i \in 1..Len(coll)}
      top == IF used = {} THEN 0
             ELSE CHOOSE m \in used : \A u \in used : u <= m
  IN top + k

gs_response(op, code) == [op |-> op, at |-> now, code |-> code]

\* GET ?projectId=
GetSheets(projectId) ==
  /\ resp' = IF projectId = ""
             THEN gs_response("getSheets", 400)
             ELSE [op |-> "getSheets", at |-> now, code |-> 200,
                   data |-> {generatedSheets[i] : i \in
                               {j \in 1..Len(generatedSheets) :
                                  generatedSheets[j].projectId = projectId}}]
  /\ UNCHANGED <<projects, collaborations, rates, works, now, inflight,
                 automationState, generatorState, sheetState>>

\* POST ?action=migrate
Migrate(recordsToMigrate) ==
  LET tokens == {recordsToMigrate[i].sheetToken :
                   i \in {j \in 1..Len(recordsToMigrate) :
                            recordsToMigrate[j].sheetToken # ""}}
      existingTokens ==
        {generatedSheets[i].sheetToken :
           i \in {j \in 1..Len(generatedSheets) :
                    generatedSheets[j].sheetToken \in tokens}}
      isNew(r) == r.sheetToken # "" /\ r.sheetToken \notin existingTokens
      newRecords == SelectSeq(recordsToMigrate, isNew)
      recordsToInsert ==
        [k \in 1..Len(newRecords) |->
           [_id |-> newSheetId(generatedSheets, k),
            projectId |-> newRecords[k].projectId,
            sheetToken |-> newRecords[k].sheetToken,
            createdBy |-> "migration",
            createdAt |-> now]]
  IN /\ Len(generatedSheets) + Len(recordsToMigrate) <= MaxSheets
     /\ IF recordsToMigrate = <<>>
        THEN /\ resp' = [op |-> "migrate", at |-> now, code |-> 400,
                         batch |-> recordsToMigrate, migrated |-> 0]
             /\ UNCHANGED generatedSheets
        ELSE /\ generatedSheets' = generatedSheets \o recordsToInsert
             /\ resp' = [op |-> "migrate", at |-> now, code |-> 200,
                         batch |-> recordsToMigrate,
                         migrated |-> Len(newRecords)]
     /\ UNCHANGED <<projects, collaborations, rates, works, now, inflight,
                    automationState, generatorState, talents>>

\* POST without action=migrate
AddSheet(projectId, sheetToken, createdBy) ==
  LET newRecord == [_id |-> newSheetId(generatedSheets, 1),
                    projectId |-> projectId,
                    sheetToken |-> sheetToken,
                    createdBy |-> IF createdBy = "" THEN "unknown"
                                  ELSE createdBy,
                    createdAt |-> now]
  IN /\ Len(generatedSheets) < MaxSheets
     /\ IF projectId = "" \/ sheetToken = ""
        THEN /\ resp' = gs_response("addSheet", 400)
             /\ UNCHANGED generatedSheets
        ELSE /\ generatedSheets' = Append(generatedSheets, newRecord)
             /\ resp' = [op |-> "addSheet", at |-> now, code |-> 201,
                         data |-> newRecord]
     /\ UNCHANGED <<projects, collaborations, rates, works, now, inflight,
                    automationState, generatorState, talents>>

\* DELETE ?id= ; id 0 is an absent or malformed id
DeleteSheet(id) ==
  LET keep(r) == r._id # id
  IN /\ IF id = 0
        THEN /\ resp' = gs_response("deleteSheet", 400)
             /\ UNCHANGED generatedSheets
        ELSE /\ generatedSheets' = SelectSeq(generatedSheets, keep)
             /\ resp' = gs_response("deleteSheet", 204)
     /\ UNCHANGED <<projects, collaborations, rates, works, now, inflight,
                    automationState, generatorState, talents>>

MigrationRecords ==
  {[projectId |-> "p1", sheetToken |-> t] : t \in SheetTokens \cup {""}}

MigrationBatches ==
  {<<>>} \cup {<<a>> : a \in MigrationRecords}
         \cup {<<a, b>> : a \in MigrationRecords, b \in MigrationRecords}

InitSheets ==
  /\ projects = <<>>
  /\ collaborations = <<>>
  /\ rates = <<>>
  /\ works = <<>>
  /\ now = NowStart
  /\ resp = NoResp
  /\ inflight = NoneInFlight
  /\ OtherCollectionsEmpty

NextSheets ==
  \/ \E projectId \in {"", "p1"} : GetSheets(projectId)
  \/ \E batch \in MigrationBatches : Migrate(batch)
  \/ \E projectId \in {"", "p1"}, sheetToken \in SheetTokens \cup {""},
        createdBy \in {"", "u1"} : AddSheet(projectId, sheetToken, createdBy)
  \/ \E id \in 0..MaxSheets : DeleteSheet(id)

SpecSheets == InitSheets /\ [][NextSheets]_vars

----------------------------------------------------------------------------
(* The task generator (v12): a scan reads projects, collaborations, works  *)
(* and talents, keeps one task per (relatedProjectId, type) pending or     *)
(* COMPLETED, posts to the Feishu notifier and writes a run log.  Task     *)
(* title, description and dueDate are copied through and are left out.     *)
(* The function's local time zone is taken to be UTC.  notifications holds *)
(* the calls of triggerFeishuNotification.                                 *)

GenStart == 30
GenStep == 288
GenMax == 610
MaxRuns == 2

SCANNED_STATUSES == {Str("executing"), Str("settling")}

PROJECT_RULES ==
  <<"PROJECT_PENDING_PUBLISH", "PROJECT_DATA_OVERDUE_T7",
    "PROJECT_DATA_OVERDUE_T21", "PROJECT_FINALIZE_REMINDER">>

\* doc[field], Missing when the document has no such field
fieldOf(doc, field) == IF field \in DOMAIN doc THEN doc[field] ELSE Missing

\* today.setHours(0, 0, 0, 0), as a day number
todayOf(t) == utcDay(t)

\* the calendar of January 1970, which the clock stays in
getDay(day) == (day + 4) % 7
getDate(day) == day + 1
getFullYear(day) == 1970
getMonth(day) == 0

\* projects.find({status: {$in: [...]}})
scannedProjects == SelectSeq(projects, LAMBDA p : p.status \in SCANNED_STATUSES)

scannedIds == {scannedProjects[i].id : i \in 1..Len(scannedProjects)}

\* collabsByProject[project.id] || []
collabsByProject(projectId) ==
  IF projectId \in scannedIds
  THEN SelectSeq(collaborations, LAMBDA c : c.projectId = projectId)
  ELSE <<>>

\* worksByCollab[id], over the works of the scanned projects
worksByCollab(cid) ==
  workMapGet(SelectSeq(works, LAMBDA w :
               \E id \in scannedIds : w.projectId = Str(id)), cid)

\* c.publishDate && new Date(c.publishDate) > latest, from new Date(0)
latestPublishDate(projectCollabs) ==
  LET days == {fieldOf(projectCollabs[i], "publishDate").n :
                 i \in {j \in 1..Len(projectCollabs) :
                   /\ jsTruthy(fieldOf(projectCollabs[j], "publishDate"))
                   /\ fieldOf(projectCollabs[j], "publishDate").k = "datestr"
                   /\ fieldOf(projectCollabs[j], "publishDate").n > 0}}
  IN IF days = {} THEN 0 ELSE CHOOSE m \in days : \A x \in days : x <= m

isWaitingForRelease(projectCollabs) ==
  \E i \in 1..Len(projectCollabs) :
    /\ projectCollabs[i].status = Str("confirmed")
    /\ ~jsTruthy(fieldOf(projectCollabs[i], "publishDate"))

isDataMissing(projectCollabs, stamp) ==
  \E i \in 1..Len(projectCollabs) :
    /\ jsTruthy(fieldOf(projectCollabs[i], "publishDate"))
    /\ ~jsTruthy(fieldOf(worksByCollab(projectCollabs[i].id), stamp))

cond_PENDING_PUBLISH(project, projectCollabs, today) ==
  \E i \in 1..Len(projectCollabs) :
    LET planned == fieldOf(projectCollabs[i], "plannedReleaseDate")
    IN /\ projectCollabs[i].status = Str("confirmed")
       /\ jsTruthy(planned)
       /\ planned.k = "datestr"
       /\ planned.n <= today

cond_DATA_OVERDUE(project, projectCollabs, today, days, stamp) ==
  /\ ~isWaitingForRelease(projectCollabs)
  /\ latestPublishDate(projectCollabs) # 0
  /\ ~(today <= latestPublishDate(projectCollabs) + days)
  /\ isDataMissing(projectCollabs, stamp)

cond_FINALIZE_REMINDER(project, projectCollabs, today) ==
  /\ project.status \notin {Str("settling"), Str("paid"), Str("finalized")}
  /\ latestPublishDate(projectCollabs) # 0
  /\ today > latestPublishDate(projectCollabs) + 21

\* rule.condition(project, projectCollabs) of the rule of the given type
condition(type, project, projectCollabs, today) ==
  CASE type = "PROJECT_PENDING_PUBLISH" ->
         cond_PENDING_PUBLISH(project, projectCollabs, today)
    [] type = "PROJECT_DATA_OVERDUE_T7" ->
         cond_DATA_OVERDUE(project, projectCollabs, today, 7,
                           "t7_statsUpdatedAt")
    [] type = "PROJECT_DATA_OVERDUE_T21" ->
         cond_DATA_OVERDUE(project, projectCollabs, today, 21,
                           "t21_statsUpdatedAt")
    [] type = "PROJECT_FINALIZE_REMINDER" ->
         cond_FINALIZE_REMINDER(project, projectCollabs, today)

\* the calls of the project rule loop, in order
RECURSIVE projectCalls(_, _)
projectCalls(ps, today) ==
  IF ps = <<>> THEN <<>>
  ELSE [k \in 1..Len(PROJECT_RULES) |->
          [relatedProjectId |-> Head(ps).id, type |-> PROJECT_RULES[k],
           create |-> condition(PROJECT_RULES[k], Head(ps),
                                collabsByProject(Head(ps).id), today)]]
       \o projectCalls(Tail(ps), today)

talentsToUpdate(today) ==
  SelectSeq(talents, LAMBDA talent :
    \/ ~jsTruthy(talent.lastUpdated)
    \/ Abs(today - talent.lastUpdated.n) > 7)

talentsWithoutPrice(today) ==
  SelectSeq(talents, LAMBDA talent :
    ~\E i \in 1..Len(talent.prices) :
        /\ talent.prices[i].year = getFullYear(today)
        /\ talent.prices[i].month = getMonth(today) + 1
        /\ talent.prices[i].status = "confirmed")

\* the calls of the system rules
systemCalls(today) ==
  (IF getDay(today) = 1
   THEN <<[relatedProjectId |-> "system_maintenance",
           type |-> "TALENT_PERFORMANCE_UPDATE_REMINDER",
           create |-> talentsToUpdate(today) # <<>>]>>
   ELSE <<>>)
  \o
  (IF getDate(today) = 2
   THEN <<[relatedProjectId |-> "system_maintenance",
           type |-> "TALENT_PRICE_UPDATE_REMINDER",
           create |-> talentsWithoutPrice(today) # <<>>]>>
   ELSE <<>>)

\* position of the first task matching a filter, 0 when none
firstTask(ts, relatedProjectId, type, statuses) ==
  LET idx == {i \in 1..Len(ts) : /\ ts[i].relatedProjectId = relatedProjectId
                                 /\ ts[i].type = type
                                 /\ ts[i].status \in statuses}
  IN IF idx = {} THEN 0 ELSE CHOOSE i \in idx : \A j \in idx : i <= j

\* whether createOrUpdateTask notifies: the task was inserted, or its
\* updatedAt is less than a second after its createdAt
notifies(ts, call, t, sameSecond) ==
  LET i == firstTask(ts, call.relatedProjectId, call.type,
                     {"pending", "COMPLETED"})
  IN \/ i = 0
     \/ (ts[i].createdAt = t /\ sameSecond)

\* TaskService.createOrUpdateTask: findOneAndUpdate with upsert
createOrUpdateTask(ts, call, t) ==
  LET i == firstTask(ts, call.relatedProjectId, call.type,
                     {"pending", "COMPLETED"})
  IN IF i = 0
     THEN Append(ts, [relatedProjectId |-> call.relatedProjectId,
                      type |-> call.type, status |-> "pending",
                      createdAt |-> t, updatedAt |-> t])
     ELSE [ts EXCEPT ![i] = [@ EXCEPT !.status = "pending", !.updatedAt = t]]

\* completeTask without its update
completeTask_skipped(ts, call, t) == ts

\* TaskService.completeTask
completeTask(ts, call, t) ==
  LET i == firstTask(ts, call.relatedProjectId, call.type, {"pending"})
  IN IF i = 0 THEN ts
     ELSE [ts EXCEPT ![i] = [@ EXCEPT !.status = "COMPLETED", !.updatedAt = t]]

\* the rule loops: the calls applied in order to the tasks, the notifier and
\* the counters of the log
RECURSIVE runCalls(_, _, _, _)
runCalls(st, calls, t, sameSecond) ==
  IF calls = <<>> THEN st
  ELSE LET call == Head(calls)
           next ==
             IF call.create
             THEN [tasks |-> createOrUpdateTask(st.tasks, call, t),
                   notifications |->
                     IF notifies(st.tasks, call, t, sameSecond)
                     THEN Append(st.notifications,
                                 [relatedProjectId |-> call.relatedProjectId,
                                  type |-> call.type, at |-> t])
                     ELSE st.notifications,
                   createdTasks |-> st.createdTasks + 1,
                   completedTasks |-> st.completedTasks]
             ELSE [tasks |-> completeTask(st.tasks, call, t),
                   notifications |-> st.notifications,
                   createdTasks |-> st.createdTasks,
                   completedTasks |-> st.completedTasks + 1]
       IN runCalls(next, Tail(calls), t, sameSecond)

\* the log record as it is before the scan: without the catch block a failed
\* run would insert it unchanged
logPayload_uncaught(triggerType, failed, st) ==
  [timestamp |-> now, triggerType |-> triggerType,
   status |-> IF failed THEN "PENDING" ELSE "SUCCESS",
   createdTasks |-> st.createdTasks, completedTasks |-> st.completedTasks]

\* the log record the finally block inserts
logPayload(triggerType, failed, st) ==
  [timestamp |-> now, triggerType |-> triggerType,
   status |-> IF failed THEN "FAILURE" ELSE "SUCCESS",
   createdTasks |-> st.createdTasks, completedTasks |-> st.completedTasks]

\* a scan: the scheduled trigger, or POST {action: 'triggerScan'}.  failed:
\* the first read of the store throws.  sameSecond: the scan runs less than
\* a second after the tasks created at the same clock value.
Scan(triggerType, failed, sameSecond) ==
  LET start == [tasks |-> tasks, notifications |-> notifications,
                createdTasks |-> 0, completedTasks |-> 0]
      today == todayOf(now)
      st == IF failed THEN start
            ELSE runCalls(start,
                          projectCalls(scannedProjects, today)
                            \o systemCalls(today),
                          now, sameSecond)
  IN /\ Len(taskRunLogs) < MaxRuns
     /\ tasks' = st.tasks
     /\ notifications' = st.notifications
     /\ taskRunLogs' = Append(taskRunLogs, logPayload(triggerType, failed, st))
     /\ resp' = [op |-> "scan", at |-> now,
                 code |-> IF triggerType = "MANUAL" THEN 200 ELSE 0]
     /\ UNCHANGED <<projects, collaborations, rates, works, now, inflight,
                    automationState, sheetState>>

\* OPTIONS
GeneratorOptions ==
  /\ resp' = [op |-> "options", code |-> 204]
  /\ UNCHANGED <<projects, collaborations, rates, works, now, inflight,
                 automationState, generatorState, sheetState>>

\* POST {action: 'getLogs'}; failed: the read of the logs throws
GetLogs(failed) ==
  /\ resp' = IF failed
             THEN [op |-> "getLogs", code |-> 500]
             ELSE [op |-> "getLogs", code |-> 200, data |-> taskRunLogs]
  /\ UNCHANGED <<projects, collaborations, rates, works, now, inflight,
                 automationState, generatorState, sheetState>>

\* POST with any other action, or with none
InvalidAction ==
  /\ resp' = [op |-> "invalidAction", code |-> 400]
  /\ UNCHANGED <<projects, collaborations, rates, works, now, inflight,
                 automationState, generatorState, sheetState>>

\* days pass between the runs
GeneratorTick ==
  /\ now + GenStep <= GenMax
  /\ now' = now + GenStep
  /\ UNCHANGED <<projects, collaborations, rates, works, resp, inflight,
                 automationState, generatorState, sheetState>>

GeneratorCollab ==
  [plannedReleaseDate |-> DateStr(1)] @@
  [UpdatableCollab EXCEPT !.status = Str("confirmed")]

PublishedCollab ==
  [GeneratorCollab EXCEPT !.status = Str("published"),
                          !.publishDate = DateStr(1)]

WorkWithT7 ==
  [t7_statsUpdatedAt |-> Date(0)] @@
  [NoWork EXCEPT !.collaborationId = "c1", !.projectId = Str("p1"),
                 !.talentId = Str("t1")]

TalentWithoutPrice == [id |-> "t1", lastUpdated |-> Missing, prices |-> <<>>]

TalentWithPrice ==
  [id |-> "t1", lastUpdated |-> DateStr(6),
   prices |-> <<[year |-> 1970, month |-> 1, status |-> "confirmed"]>>]

\* a task an earlier run created and a later one completed
CompletedTask ==
  [relatedProjectId |-> "p1", type |-> "PROJECT_PENDING_PUBLISH",
   status |-> "COMPLETED", createdAt |-> 0, updatedAt |-> 0]

\* the stored documents a run may find: project status, collaboration,
\* works, talents, tasks
Scenarios ==
  {<<Str("executing"), GeneratorCollab, <<>>, <<TalentWithoutPrice>>, <<>>>>,
   <<Str("executing"), GeneratorCollab, <<>>, <<TalentWithoutPrice>>,
     <<CompletedTask>>>>,
   <<Str("executing"), PublishedCollab, <<>>, <<TalentWithPrice>>, <<>>>>,
   <<Str("settling"), PublishedCollab, <<WorkWithT7>>, <<TalentWithoutPrice>>,
     <<>>>>,
   <<Str("finalized"), GeneratorCollab, <<>>, <<TalentWithPrice>>, <<>>>>}

InitGenerator ==
  /\ \E sc \in Scenarios :
       /\ projects = <<[BaseProject EXCEPT !.status = sc[1]]>>
       /\ collaborations = <<sc[2]>>
       /\ works = sc[3]
       /\ talents = sc[4]
       /\ tasks = sc[5]
  /\ rates = <<BaseRate>>
  /\ now = GenStart
  /\ resp = NoResp
  /\ inflight = NoneInFlight
  /\ jobs = <<>>
  /\ automationTasks = <<>>
  /\ taskRunLogs = <<>>
  /\ notifications = <<>>
  /\ generatedSheets = <<>>

GeneratorUpdates ==
  {[status |-> Str("confirmed"), publishDate |-> Missing,
    videoId |-> Missing, actualRebate |-> Missing],
   [status |-> Missing, publishDate |-> DateStr(1),
    videoId |-> Missing, actualRebate |-> Missing]}

\* trigger, failure of the first read, closeness to the previous run
ScanInputs ==
  {<<"SCHEDULED", FALSE, FALSE>>, <<"MANUAL", FALSE, TRUE>>,
   <<"MANUAL", TRUE, FALSE>>}

NextGenerator ==
  \/ \E in \in ScanInputs : Scan(in[1], in[2], in[3])
  \/ GeneratorOptions
  \/ \E failed \in BOOLEAN : GetLogs(failed)
  \/ InvalidAction
  \/ GeneratorTick
  \/ \E updateFields \in GeneratorUpdates :
       UpdateCollaborator("c1", updateFields)

SpecGenerator == InitGenerator /\ [][NextGenerator]_vars

----------------------------------------------------------------------------
(* The formulas as the specification states them, on exact numbers *)

IsCL == resp.op = "getCollaborators" /\ resp.code = 200

IsPL == resp.op = "getProjects" /\ resp.code = 200

\* a field that holds a number, a numeral, null or the empty string
Coercible(v) == v.k \in {"num", "numstr"} \/ v \in {Null, EmptyStr}

\* toNumber(v, default)
ToNumber(v, dflt) == IF v.k \in {"num", "numstr"} THEN Num(v.n, v.d) ELSE dflt

\* an actual rebate counts as present unless absent, null or empty
Present(v) == v \notin {Missing, Null, EmptyStr}

ClaimedExpense(a, r, ot) ==
  IF ot = Str("original") THEN Num(a.n * 105, a.d * 100)
  ELSE IF NumLess(N(20), r) THEN Num(a.n * 8 * 105, a.d * 10 * 100)
       ELSE Num(a.n * (100 * r.d - r.n) * 105, a.d * 100 * r.d * 100)

ClaimedRebateReceivable(a, r, ot) ==
  IF ot = Str("original") THEN Num(a.n * r.n, a.d * r.d * 100)
  ELSE IF NumLess(N(20), r) THEN Num(a.n * (r.n - 20 * r.d), a.d * r.d * 100)
       ELSE N(0)

ClaimedRebateForProfitCalc(actual, finalized, estimate) ==
  IF Present(actual) THEN ToNumber(actual, N(0))
  ELSE IF finalized THEN N(0) ELSE estimate

\* amount and rebate of collaboration c as numbers
AmountOf(c) == ToNumber(c.amount, N(0))

RebateOf(c) == ToNumber(c.rebate, N(0))

----------------------------------------------------------------------------
\* C1: at every call site rebateForProfitCalc is the actual rebate when one
\* is present (not absent, null or empty); otherwise it is 0 for a finalized
\* project and the estimated rebateReceivable for any other project.
C1_RebatePrecedence ==
  /\ IsCL =>
       resp.fields.rebateForProfitCalc =
         ClaimedRebateForProfitCalc(resp.doc.actualRebate,
                                    resp.project.status = Str("finalized"),
                                    resp.fields.rebateReceivable)
  /\ IsPL =>
       \A i \in 1..Len(resp.docs) :
         (Coercible(resp.docs[i].amount) /\ Coercible(resp.docs[i].rebate)) =>
           resp.perCollab[i].rebateForProfitCalc =
             ClaimedRebateForProfitCalc(
               resp.docs[i].actualRebate,
               resp.project.status = Str("finalized"),
               ClaimedRebateReceivable(AmountOf(resp.docs[i]), RebateOf(resp.docs[i]),
                                       resp.docs[i].orderType))

\* C2: expense is amount*1.05 for an original order, amount*0.8*1.05 when
\* the rebate exceeds 20, and amount*(1 - rebate/100)*1.05 otherwise (a rebate
\* of exactly 20 included); the two listings compute the same expense.
C2_Expense ==
  /\ IsCL =>
       /\ pl_expense(resp.doc) = resp.fields.expense
       /\ (Coercible(resp.doc.amount) /\ Coercible(resp.doc.rebate)) =>
            resp.fields.expense =
              ClaimedExpense(AmountOf(resp.doc), RebateOf(resp.doc), resp.doc.orderType)
  /\ IsPL =>
       \A i \in 1..Len(resp.docs) :
         /\ cl_fields(resp.docs[i], resp.at).expense = resp.perCollab[i].expense
         /\ (Coercible(resp.docs[i].amount) /\ Coercible(resp.docs[i].rebate)) =>
              resp.perCollab[i].expense =
                ClaimedExpense(AmountOf(resp.docs[i]), RebateOf(resp.docs[i]),
                               resp.docs[i].orderType)

\* a collaborator-listing response for a non-original order whose rebate is
\* exactly 20: the expense is 100 * (1 - 20/100) * 1.05 = 84
C2_Witness ==
  /\ IsCL
  /\ resp.doc.orderType = Str("other")
  /\ resp.fields.rebateNum = N(20)
  /\ resp.fields.amountNum = N(100)
  /\ resp.fields.expense = N(84)

\* C3: rebateReceivable is amount*rebate/100 for an original order,
\* amount*(rebate/100 - 0.20) when the rebate exceeds 20, and 0 otherwise;
\* it is never negative for amount >= 0 and a rebate within 0..100.
C3_RebateReceivable ==
  /\ (IsCL /\ Coercible(resp.doc.amount) /\ Coercible(resp.doc.rebate)) =>
         /\ resp.fields.rebateReceivable =
              ClaimedRebateReceivable(AmountOf(resp.doc), RebateOf(resp.doc),
                                      resp.doc.orderType)
         /\ (AmountOf(resp.doc).n >= 0 /\ RebateOf(resp.doc).n >= 0
               /\ ~NumLess(N(100), RebateOf(resp.doc))) =>
              resp.fields.rebateReceivable.n >= 0
  /\ IsPL =>
       \A i \in 1..Len(resp.docs) :
         (/\ Coercible(resp.docs[i].amount) /\ Coercible(resp.docs[i].rebate)
          /\ resp.docs[i].actualRebate \in {Missing, Null}
          /\ resp.project.status # Str("finalized")) =>
           /\ resp.perCollab[i].rebateForProfitCalc =
                ClaimedRebateReceivable(AmountOf(resp.docs[i]), RebateOf(resp.docs[i]),
                                        resp.docs[i].orderType)
           /\ (AmountOf(resp.docs[i]).n >= 0 /\ RebateOf(resp.docs[i]).n >= 0
                 /\ ~NumLess(N(100), RebateOf(resp.docs[i]))) =>
                resp.perCollab[i].rebateForProfitCalc.n >= 0

\* a project-listing response whose estimate is 100 * (25/100 - 0.20) = 5
C3_Witness ==
  /\ IsPL
  /\ Len(resp.docs) = 1
  /\ resp.docs[1].orderType = Str("other")
  /\ resp.docs[1].rebate = N(25)
  /\ resp.docs[1].amount = N(100)
  /\ resp.docs[1].actualRebate = Missing
  /\ resp.project.status = Str("executing")
  /\ resp.perCollab[1].rebateForProfitCalc = N(5)

----------------------------------------------------------------------------
IsSDS == resp.op = "saveDailyStats" /\ resp.code = 200

IsMDU == resp.op = "manualDailyUpdate" /\ resp.code = 200

IsGRD == resp.op = "getReportData" /\ resp.code = 200

\* a stored number or numeral that is not negative
NonNegative(v) == v.k \in {"num", "numstr"} /\ v.n >= 0

\* amount * discount * 1.05
ClaimedIncome(a, d) == Num(a.n * d.n * 105, a.d * d.d * 100)

\* C4: for amount >= 0 and discount >= 0, income = amount*discount*1.05 in
\* the collaborator listing, the project listing, saveDailyStats and the
\* manualDailyUpdate import.
C4_Income ==
  /\ (IsCL /\ NonNegative(resp.doc.amount)
           /\ NonNegative(resp.project.discount)) =>
       resp.fields.income =
         ClaimedIncome(AmountOf(resp.doc), ToNumber(resp.project.discount, N(1)))
  /\ (IsPL /\ NonNegative(resp.project.discount)) =>
       \A i \in 1..Len(resp.docs) :
         NonNegative(resp.docs[i].amount) =>
           resp.perCollab[i].income =
             ClaimedIncome(AmountOf(resp.docs[i]),
                           ToNumber(resp.project.discount, N(1)))
  /\ (IsSDS /\ NonNegative(resp.project.discount)) =>
       \A i \in 1..Len(resp.items) :
         (~resp.items[i].skipped
            /\ NonNegative(resp.items[i].collaboration.amount)) =>
           resp.items[i].income =
             ClaimedIncome(AmountOf(resp.items[i].collaboration),
                           ToNumber(resp.project.discount, N(1)))
  /\ IsMDU =>
       \A i \in 1..Len(resp.items) :
         (~resp.items[i].skipped
            /\ NonNegative(resp.items[i].project.discount)
            /\ NonNegative(resp.items[i].collaboration.amount)) =>
           resp.items[i].income =
             ClaimedIncome(AmountOf(resp.items[i].collaboration),
                           ToNumber(resp.items[i].project.discount, N(1)))

\* the project is not found, or its discount is absent, null, empty or not
\* a numeral
Unresolved(p) ==
  \/ p = NoProject
  \/ p.discount \in {Missing, Null, EmptyStr}
  \/ p.discount.k = "str"

\* no field other than the discount is a string that does not parse
Parses(v) == v.k # "str" \/ v = EmptyStr

CollabParses(c) ==
  /\ Parses(c.amount) /\ Parses(c.rebate) /\ Parses(c.actualRebate)
  /\ Parses(c.orderDate) /\ Parses(c.paymentDate)

ProjectParses(p) ==
  /\ Parses(p.budget)
  /\ \A i \in 1..Len(p.adjustments) : Parses(p.adjustments[i])
  /\ Parses(capitalRateInfo(p).value)

\* C5: when the project's discount is null, empty, absent or unparseable, or
\* the project is not found, the collaborator listing, the project listing,
\* getReportData, saveDailyStats and manualDailyUpdate use 1 as the discount
\* and do not raise.
C5_DiscountDefault ==
  /\ (resp.op = "getCollaborators" /\ resp.code # 404) =>
       LET c == findCollaboration(resp.id)
           p == projectInfo(c)
       IN (Unresolved(p) /\ CollabParses(c) /\ ProjectParses(p)
             /\ NonNegative(c.amount)) =>
            /\ resp.code = 200
            /\ resp.fields.income = ClaimedIncome(AmountOf(c), N(1))
  /\ (resp.op = "getProjects" /\ resp.code # 404) =>
       LET p == findProject(resp.id)
           cs == confirmedCollaborations(pl_lookup(p))
       IN (Unresolved(p) /\ ProjectParses(p)
             /\ \A i \in 1..Len(cs) : CollabParses(cs[i])) =>
            /\ resp.code = 200
            /\ \A i \in 1..Len(cs) :
                 NonNegative(cs[i].amount) =>
                   resp.perCollab[i].income =
                     ClaimedIncome(AmountOf(cs[i]), N(1))
  /\ (IsGRD /\ ~resp.empty /\ Unresolved(resp.project)) =>
       resp.projectDiscount = N(1)
  /\ (IsSDS /\ Unresolved(resp.project)) =>
       /\ resp.projectDiscount = N(1)
       /\ \A i \in 1..Len(resp.items) :
            (~resp.items[i].skipped
               /\ NonNegative(resp.items[i].collaboration.amount)) =>
              resp.items[i].income =
                ClaimedIncome(AmountOf(resp.items[i].collaboration), N(1))
  /\ IsMDU =>
       \A i \in 1..Len(resp.items) :
         (~resp.items[i].skipped /\ Unresolved(resp.items[i].project)) =>
           resp.items[i].projectDiscount = N(1)

----------------------------------------------------------------------------
\* the day number a date-only string stands for
DayOf(v) == v.n

NoDate(v) == v \in {Missing, Null, EmptyStr}

\* the two responses of a step are the same listing's metrics for the same
\* stored documents, computed on one calendar day (in UTC and in UTC+8)
SameDayPair(op) ==
  /\ resp.op = op /\ resp.code = 200
  /\ resp'.op = op /\ resp'.code = 200
  /\ resp'.at # resp.at
  /\ utcDay(resp'.at) = utcDay(resp.at)
  /\ shanghaiDay(resp'.at) = shanghaiDay(resp.at)

\* C6: for a collaboration with an order date and no payment date, two
\* computations on the same calendar day give the same occupationDays and
\* the same fundsOccupationCost, in both listings.
C6_SameDayStable ==
  [][/\ (/\ SameDayPair("getCollaborators")
         /\ resp'.doc = resp.doc
         /\ resp.doc.orderDate.k = "datestr"
         /\ NoDate(resp.doc.paymentDate)) =>
          /\ resp'.fields.occupationDays = resp.fields.occupationDays
          /\ resp'.fields.fundsOccupationCost = resp.fields.fundsOccupationCost
     /\ SameDayPair("getProjects") =>
          \A i \in 1..Len(resp.docs) :
            (resp.docs[i].orderDate.k = "datestr" /\ NoDate(resp.docs[i].paymentDate)) =>
              /\ resp'.perCollab[i].occupationDays = resp.perCollab[i].occupationDays
              /\ resp'.perCollab[i].fundsOccupationCost =
                   resp.perCollab[i].fundsOccupationCost]_vars

\* what the claim says occupationDays of collaboration c is, given the
\* computed value days
ClaimedDays(c, days) ==
  /\ IsNum(days) /\ days.d = 1 /\ days.n >= 0
  /\ NoDate(c.orderDate) => days = N(0)
  /\ (c.orderDate.k = "datestr" /\ c.paymentDate.k = "datestr") =>
       days = N(IF DayOf(c.paymentDate) > DayOf(c.orderDate)
                THEN DayOf(c.paymentDate) - DayOf(c.orderDate) ELSE 0)

\* C7: occupationDays is max(0, endDate - startDate) in whole days, with
\* endDate the payment date when present; it is 0 without an order date and
\* when the payment precedes the order, never fractional and never negative.
C7_WholeDays ==
  /\ IsCL => ClaimedDays(resp.doc, resp.fields.occupationDays)
  /\ IsPL => \A i \in 1..Len(resp.docs) :
               ClaimedDays(resp.docs[i], resp.perCollab[i].occupationDays)

\* expense * (monthlyRatePercent / 100 / 30) * occupationDays
ClaimedFundsCost(e, rate, days) ==
  Num(e.n * rate.n * days.n, e.d * rate.d * 100 * 30 * days.d)

ClaimedFundsCostHolds(e, rate, days, cost) ==
  (IsNum(e) /\ IsNum(rate) /\ IsNum(days)) =>
    /\ cost = ClaimedFundsCost(e, rate, days)
    /\ days = N(0) => cost = N(0)
    /\ (e.n >= 0 /\ rate.n >= 0) => cost.n >= 0

ClaimedRate(r) ==
  IF r = NoRate \/ r.value \in {Missing, Null, EmptyStr} THEN Num(7, 10)
  ELSE ToNumber(r.value, Num(7, 10))

\* C9: monthlyRatePercent is the numeric value of the referenced capital
\* rate and 0.7 when the rate is unresolved (no capitalRateId, no matching
\* record, or a null or empty value), in both listings.
C9_RateDefault ==
  /\ IsCL => resp.fields.monthlyRatePercent = ClaimedRate(resp.rate)
  /\ IsPL => resp.monthlyRatePercent = ClaimedRate(resp.rate)

\* ratio = part / whole * 100 when whole > 0, and 0 otherwise
ClaimedRatio(part, whole, ratio) ==
  (IsNum(part) /\ IsNum(whole)) =>
    ratio = IF whole.n > 0 THEN Num(part.n * whole.d * 100, part.d * whole.n)
            ELSE N(0)

\* C10: grossProfitMargin is grossProfit/income*100 only when income > 0 and
\* 0 otherwise; preAdjustmentMargin, operationalMargin and budgetUtilization
\* are guarded the same way.
C10_GuardedRatios ==
  /\ IsCL => ClaimedRatio(resp.fields.grossProfit, resp.fields.income,
                          resp.fields.grossProfitMargin)
  /\ IsPL =>
       /\ ClaimedRatio(resp.rollup.preAdjustmentProfit, resp.rollup.totalIncome,
                       resp.rollup.preAdjustmentMargin)
       /\ ClaimedRatio(resp.rollup.operationalProfit, resp.rollup.totalIncome,
                       resp.rollup.operationalMargin)
       /\ ClaimedRatio(resp.rollup.totalIncome, resp.rollup.projectBudget,
                       resp.rollup.budgetUtilization)

----------------------------------------------------------------------------
\* exact sums and differences of numbers
RatAdd(a, b) == Num(a.n * b.d + b.n * a.d, a.d * b.d)

RatSub(a, b) == Num(a.n * b.d - b.n * a.d, a.d * b.d)

RECURSIVE RatSum(_)
RatSum(seq) == IF seq = <<>> THEN N(0) ELSE RatAdd(Head(seq), RatSum(Tail(seq)))

\* the adjustment amounts above zero, and those below zero
PositiveAmounts(adj) == SelectSeq(adj, LAMBDA v : v.n > 0)

NegativeAmounts(adj) == SelectSeq(adj, LAMBDA v : v.n < 0)

\* every per-collaboration metric of the response is a number
AllNumbers(ms) ==
  \A i \in 1..Len(ms) :
    /\ IsNum(ms[i].income) /\ IsNum(ms[i].expense)
    /\ IsNum(ms[i].rebateForProfitCalc) /\ IsNum(ms[i].fundsOccupationCost)

GrossProfitOf(m) == RatSub(RatAdd(m.income, m.rebateForProfitCalc), m.expense)

\* C11: in the project rollup incomeAdjustments is the sum of the positive
\* adjustment amounts, expenseAdjustments the absolute value of the sum of
\* the negative ones, totalIncome = sum(income) + incomeAdjustments,
\* totalOperationalCost = totalExpense + expenseAdjustments +
\* fundsOccupationCost, preAdjustmentProfit = totalGrossProfit +
\* incomeAdjustments, operationalProfit = preAdjustmentProfit -
\* (expenseAdjustments + fundsOccupationCost), and totalGrossProfit is the
\* sum over collaborations of income + rebateForProfitCalc - expense.
C11_RollupIdentities ==
  (IsPL /\ AllNumbers(resp.perCollab)) =>
    LET r == resp.rollup
        ms == resp.perCollab
        adj == resp.project.adjustments
    IN /\ r.incomeAdjustments = RatSum(PositiveAmounts(adj))
       /\ r.expenseAdjustments = RatSub(N(0), RatSum(NegativeAmounts(adj)))
       /\ r.totalIncome =
            RatAdd(RatSum([i \in 1..Len(ms) |-> ms[i].income]), r.incomeAdjustments)
       /\ r.totalExpense = RatSum([i \in 1..Len(ms) |-> ms[i].expense])
       /\ r.fundsOccupationCost =
            RatSum([i \in 1..Len(ms) |-> ms[i].fundsOccupationCost])
       /\ r.totalGrossProfit = RatSum([i \in 1..Len(ms) |-> GrossProfitOf(ms[i])])
       /\ r.totalOperationalCost =
            RatAdd(RatAdd(r.totalExpense, r.expenseAdjustments),
                   r.fundsOccupationCost)
       /\ r.preAdjustmentProfit = RatAdd(r.totalGrossProfit, r.incomeAdjustments)
       /\ r.operationalProfit =
            RatSub(r.preAdjustmentProfit,
                   RatAdd(r.expenseAdjustments, r.fundsOccupationCost))

\* a project with adjustments 50, -30, 20 and one collaboration of income
\* 105, expense 84 and rebate 5 whose funds occupation cost is not zero
C11_Witness ==
  /\ IsPL
  /\ AllNumbers(resp.perCollab)
  /\ resp.project.adjustments = <<N(50), N(-30), N(20)>>
  /\ Len(resp.perCollab) = 1
  /\ resp.rollup.incomeAdjustments = N(70)
  /\ resp.rollup.expenseAdjustments = N(30)
  /\ resp.rollup.totalIncome = N(175)
  /\ resp.rollup.preAdjustmentProfit = N(96)
  /\ resp.rollup.fundsOccupationCost.n > 0
  /\ resp.rollup.operationalProfit =
       RatSub(N(66), resp.rollup.fundsOccupationCost)

----------------------------------------------------------------------------
\* the statuses that take part in the aggregates
Participates(c) == c.status \in {Str("confirmed"), Str("published")}

\* the rollup of a looked-up project document at instant t
RollupOf(doc, t) ==
  pl_addFields8(pl_addFields7(pl_addFields6(pl_addFields5(pl_addFields4(
    pl_addFields3(pl_addFields2(pl_addFields1(doc), t))))))).metrics

Aggregates(r) ==
  <<r.totalCollaborators, r.totalIncome, r.totalExpense, r.totalGrossProfit,
    r.fundsOccupationCost>>

\* a collaboration of the project in a status outside the aggregates
Outsider ==
  [BaseCollab EXCEPT !.id = "c3", !.taskId = "k3", !.amount = N(50),
                     !.status = Str("negotiating")]

RECURSIVE ChangeOutsiders(_)
ChangeOutsiders(cs) ==
  IF cs = <<>> THEN <<>>
  ELSE <<IF Participates(Head(cs)) THEN Head(cs)
         ELSE [Head(cs) EXCEPT !.amount = N(50), !.rebate = N(10),
                               !.status = Str("cancelled")]>>
       \o ChangeOutsiders(Tail(cs))

\* C12: a collaboration whose status is neither confirmed nor published
\* contributes nothing to the project aggregates: removing, changing or
\* adding such a collaboration leaves totalCollaborators, totalIncome,
\* totalExpense, totalGrossProfit and fundsOccupationCost unchanged.
C12_StatusFilter ==
  IsPL =>
    LET doc == pl_lookup(resp.project)
        removed == [doc EXCEPT !.collaborations = SelectSeq(@, Participates)]
        changed == [doc EXCEPT !.collaborations = ChangeOutsiders(@)]
        added == [doc EXCEPT !.collaborations = Append(@, Outsider)]
    IN /\ resp.rollup.totalCollaborators =
            N(Cardinality({i \in 1..Len(doc.collaborations) :
                             Participates(doc.collaborations[i])}))
       /\ \A v \in {removed, changed, added} :
            Aggregates(RollupOf(v, resp.at)) = Aggregates(resp.rollup)

\* a project with one published and one negotiating collaboration: only the
\* published one is counted
C12_Witness ==
  /\ IsPL
  /\ Len(pl_lookup(resp.project).collaborations) = 2
  /\ \E i \in 1..2 :
       pl_lookup(resp.project).collaborations[i].status = Str("negotiating")
  /\ resp.rollup.totalCollaborators = N(1)
  /\ resp.rollup.totalIncome = N(105)

----------------------------------------------------------------------------
\* income / totalViews * 1000 when both are above zero, and 0 otherwise
ClaimedCpm(income, totalViews) ==
  IF IsNum(income) /\ income.n > 0 /\ IsNum(totalViews) /\ totalViews.n > 0
  THEN Num(income.n * totalViews.d * 1000, income.d * totalViews.n)
  ELSE N(0)

\* the daily stats stored for a collaboration
StoredStats(cid) == workMapGet(works, cid).dailyStats

\* the last item of a request that addresses the same collaboration as item i
LastItemOf(items, i) ==
  \A j \in (i + 1)..Len(items) :
    items[j].skipped \/ items[j].collaborationId # items[i].collaborationId

----------------------------------------------------------------------------
\* positions of the stats recorded for a date before that of position i
EarlierStats(stats, i) == {j \in 1..Len(stats) : stats[j].date < stats[i].date}

\* the stat of the nearest earlier recorded date
PriorStat(stats, i) ==
  stats[CHOOSE j \in EarlierStats(stats, i) :
          \A k \in EarlierStats(stats, i) : stats[k].date <= stats[j].date]

ClaimedCpmChange(stats, i) ==
  IF EarlierStats(stats, i) = {} THEN Null
  ELSE RatSub(stats[i].cpm, PriorStat(stats, i).cpm)

\* C14: the cpmChange of every daily stat is that day's cpm minus the cpm of
\* the nearest earlier recorded day of the same collaboration, and null
\* exactly when there is no earlier recorded day, after any sequence of
\* saveDailyStats calls; getReportData reports the same difference.
C14_CpmChange ==
  /\ \A w \in 1..Len(works) : \A i \in 1..Len(works[w].dailyStats) :
       works[w].dailyStats[i].cpmChange =
         ClaimedCpmChange(works[w].dailyStats, i)
  /\ (IsGRD /\ ~resp.empty) =>
       \A v \in 1..Len(resp.reportVideos) :
         LET stats == StoredStats(resp.reportVideos[v].video.collaborationId)
         IN resp.reportVideos[v].video.cpmChange =
              ClaimedCpmChange(stats, firstStat(stats, resp.day))

----------------------------------------------------------------------------
\* at most one entry per date, in ascending order of date
UniqueSorted(stats) ==
  \A i, j \in 1..Len(stats) : i < j => stats[i].date < stats[j].date

\* the step is a save of the items of resp'; a date already recorded for a
\* collaboration keeps its place and takes the submitted values
ResaveReplaces ==
  (resp'.op = "saveDailyStats" /\ resp'.code = 200) =>
    \A i \in 1..Len(resp'.items) :
      (~resp'.items[i].skipped /\ LastItemOf(resp'.items, i)) =>
        LET cid == resp'.items[i].collaborationId
            old == workMapGet(works, cid).dailyStats
            new == workMapGet(works', cid).dailyStats
        IN /\ hasStat(new, resp'.day)
           /\ findStat(new, resp'.day).totalViews = resp'.items[i].totalViews
           /\ findStat(new, resp'.day).cpm = resp'.items[i].cpm
           /\ hasStat(old, resp'.day) => Len(new) = Len(old)
           /\ ~hasStat(old, resp'.day) => Len(new) = Len(old) + 1

\* C15: after any sequence of saveDailyStats calls each work's dailyStats
\* holds at most one entry per date and is sorted by date ascending;
\* re-saving a recorded date leaves the length unchanged and replaces that
\* date's totalViews and cpm with the submitted values.
C15_SaveIdempotent ==
  [][/\ \A w \in 1..Len(works') : UniqueSorted(works'[w].dailyStats)
     /\ \A w, v \in 1..Len(works') :
          works'[w].collaborationId = works'[v].collaborationId => w = v
     /\ ResaveReplaces]_vars

\* day 1 was saved again after day 2 had been saved: the change recorded for
\* day 2 refers to a cpm of day 1 that has since been replaced
C15_Witness ==
  /\ IsSDS
  /\ resp.day = 1
  /\ Len(resp.items) = 1
  /\ Len(StoredStats("c1")) = 2
  /\ UniqueSorted(StoredStats("c1"))
  /\ StoredStats("c1")[2].cpmChange # Null
  /\ RatSub(StoredStats("c1")[2].cpm, StoredStats("c1")[2].cpmChange)
       # StoredStats("c1")[1].cpm
  /\ StoredStats("c1")[1].totalViews = resp.items[1].totalViews

----------------------------------------------------------------------------
\* C16: the remove-then-insert of a daily stat is atomic per collaboration
\* and date: under any interleaving of two concurrent or retried saves,
\* each $pull and each $push being atomic, no work ever holds two entries
\* for one date.
C16_AtomicReplace ==
  \A w \in 1..Len(works) :
    \A i, j \in 1..Len(works[w].dailyStats) :
      works[w].dailyStats[i].date = works[w].dailyStats[j].date => i = j

----------------------------------------------------------------------------
\* the dates and the capital rate, which the claim does not speak of, are
\* well-formed
DatesAndRateParse(c, p) ==
  /\ Parses(c.orderDate) /\ Parses(c.paymentDate)
  /\ Parses(capitalRateInfo(p).value)

AllMetricsAreNumbers == \A x \in DOMAIN resp.metrics : IsNum(resp.metrics[x])

\* C17: no computation of the metrics raises on malformed input: whatever
\* the amount, rebate, actualRebate, discount, budget and adjustment amounts
\* hold (absent, null, empty, a non-numeric string), the listings answer 200
\* and every metric of the response is a number, never null, NaN or an error.
C17_TotalOverInputs ==
  /\ (resp.op = "getCollaborators" /\ resp.code # 404) =>
       LET c == findCollaboration(resp.id)
       IN DatesAndRateParse(c, projectInfo(c)) =>
            resp.code = 200 /\ AllMetricsAreNumbers
  /\ (resp.op = "getProjects" /\ resp.code # 404) =>
       LET p == findProject(resp.id)
           cs == confirmedCollaborations(pl_lookup(p))
       IN (\A i \in 1..Len(cs) : DatesAndRateParse(cs[i], p)) =>
            resp.code = 200 /\ AllMetricsAreNumbers

----------------------------------------------------------------------------
\* C18: for the same collaboration, project and capital-rate records read
\* at the same instant, the project listing's per-collaboration income,
\* expense, rebateForProfitCalc, occupationDays and fundsOccupationCost are
\* the values the collaborator listing computes for that collaboration.
C18_ListingsAgree ==
  IsPL =>
    \A i \in 1..Len(resp.docs) :
      LET f == cl_fields(resp.docs[i], resp.at)
      IN \A x \in pl_collabComputed : resp.perCollab[i][x] = f[x]

----------------------------------------------------------------------------
IsUC == resp.op = "updateCollaborator" /\ resp.code = 200

\* C19: whenever an accepted update to a collaboration sets a publish date
\* or a video id, the collaboration's status after the update is published.
C19_AutoPublish ==
  (IsUC /\ (Present(resp.updateFields.publishDate)
              \/ Present(resp.updateFields.videoId))) =>
    findCollaboration(resp.id).status = Str("published")

----------------------------------------------------------------------------
IsGC == resp.op = "listCollaborators"

\* C20: every collaborator-listing request that names neither projectId nor
\* collaborationId and does not set allowGlobal=true is rejected with 400
\* before any query runs, whatever its view parameter.
C20_NoGlobalScan ==
  (IsGC /\ resp.params.projectId = "" /\ resp.params.collaborationId = ""
        /\ resp.params.allowGlobal # "true") =>
    resp.code = 400 /\ ~resp.queried

----------------------------------------------------------------------------
\* C21: saveDailyStats and the spreadsheet sync never create a works
\* record, so after any sequence of operations every works record carries
\* the collaborationId, projectId and talentId of its collaboration.
C21_WorksAreComplete ==
  \A w \in 1..Len(works) :
    LET c == findCollaboration(works[w].collaborationId)
    IN /\ c # NoCollab
       /\ works[w].projectId = Str(c.projectId)
       /\ works[w].talentId = Str(c.talentId)

----------------------------------------------------------------------------
\* the job's counts and status agree with the tasks that refer to it
JobIsAccurate(job) ==
  LET mine == tasksOfJob(automationTasks, job._id)
      open == {i \in 1..Len(mine) : mine[i].status \in {"pending", "processing"}}
  IN /\ job.totalTasks = Len(mine)
     /\ job.successTasks = Cardinality({i \in 1..Len(mine) : mine[i].status = "completed"})
     /\ job.failedTasks = Cardinality({i \in 1..Len(mine) : mine[i].status = "failed"})
     /\ job.status = (IF open = {} THEN "awaiting_review" ELSE "processing")

CountsAreAccurate(job) ==
  LET mine == tasksOfJob(automationTasks, job._id)
  IN /\ job.totalTasks = Len(mine)
     /\ job.successTasks = Cardinality({i \in 1..Len(mine) : mine[i].status = "completed"})
     /\ job.failedTasks = Cardinality({i \in 1..Len(mine) : mine[i].status = "failed"})

\* the job of the task that the completed request updated or deleted
ParentJobIsAccurate ==
  (resp.op \in {"updateTask", "rerunTask", "deleteTask"}
     /\ resp.code \in {200, 204} /\ resp.jobId # "") =>
    \A i \in 1..Len(jobs) :
      jobs[i]._id = resp.jobId => JobIsAccurate(jobs[i])

\* C22: after a task update, rerun or deletion completes, the parent job's
\* totalTasks, successTasks and failedTasks are the numbers of its tasks, of
\* its completed and of its failed tasks, and its status is awaiting_review
\* exactly when none of its tasks is pending or processing; after any
\* sequence of task operations every job's counts are accurate.
C22_JobCountsAccurate ==
  /\ ParentJobIsAccurate
  /\ \A i \in 1..Len(jobs) : CountsAreAccurate(jobs[i])

----------------------------------------------------------------------------
\* a delete request answered while the job has a task is answered 409 and
\* changes neither the jobs nor the tasks
DeleteWithTasksIsRefused ==
  (resp' # resp /\ resp'.op = "deleteJob" /\ IsValidId(resp'.id)
     /\ tasksOfJob(automationTasks, resp'.id) # <<>>) =>
    (resp'.code = 409 /\ jobs' = jobs /\ automationTasks' = automationTasks)

\* every task that names a job names a stored one
NoOrphanTask ==
  \A i \in 1..Len(automationTasks) :
    automationTasks[i].jobId # "" =>
      findById(jobs, automationTasks[i].jobId) # <<>>

\* C23: a job is deleted only when it has no tasks: a delete request for a
\* job that still has a task returns 409 and leaves the job and its tasks
\* unchanged, and under any interleaving of a job deletion with task
\* creation no task is left referring to a deleted job.
C23_DeleteOnlyEmptyJobs == [][DeleteWithTasksIsRefused]_vars /\ []NoOrphanTask

----------------------------------------------------------------------------
\* the entries of a collaboration's work for a day
EntriesFor(cid, day) == SelectSeq(StoredStats(cid), LAMBDA s : s.date = day)

\* C25: after a manualDailyUpdate import that contains a valid row for an
\* existing collaboration, the collaboration's work holds exactly one
\* dailyStats entry for the date, carrying the imported views, whatever
\* order the store executes the batched write operations in and whether or
\* not an entry for that date existed before.
C25_ImportReplaces ==
  IsMDU =>
    \A i \in 1..Len(resp.items) :
      ~resp.items[i].skipped =>
        LET entries == EntriesFor(resp.items[i].collaborationId, resp.items[i].day)
        IN /\ Len(entries) = 1
           /\ entries[1].totalViews = resp.items[i].totalViews

----------------------------------------------------------------------------
\* the request carries an id and at least one whitelisted field
IsValidUpdate ==
  /\ resp.op = "updateCollaborator"
  /\ resp.id # ""
  /\ hasValidFields(resp.updateFields)

\* C27: updateCollaborator never builds an update that names the same field
\* in both $set and $unset: for every request body the keys of $set and
\* $unset are disjoint, so a request with valid fields is never answered
\* 500 because of a conflicting update.
C27_DisjointSetUnset ==
  IsValidUpdate =>
    /\ \A f \in uc_unset(resp.updateFields) :
         uc_set(resp.updateFields, resp.at)[f] = Missing
    /\ resp.code # 500

----------------------------------------------------------------------------
\* C28: there is at most one works record per collaborationId after any
\* interleaving of concurrent updateCollaborator requests that set
\* publishDate or videoId on the same collaboration, and of those requests
\* with saveDailyStats upserts for it.
C28_OneWorkPerCollaboration ==
  \A i, j \in 1..Len(works) :
    works[i].collaborationId = works[j].collaborationId => i = j

----------------------------------------------------------------------------
\* a migrate call that directly follows an accepted migrate call with the
\* same input inserts nothing and reports migrated = 0
SecondMigrateInsertsNothing ==
  (/\ resp.op = "migrate" /\ resp.code = 200
   /\ resp'.op = "migrate" /\ resp'.batch = resp.batch)
  => /\ generatedSheets' = generatedSheets
     /\ resp'.migrated = 0

\* no two stored records created by migration share a sheetToken
MigratedTokensUnique ==
  \A i, j \in 1..Len(generatedSheets) :
    (/\ generatedSheets[i].createdBy = "migration"
     /\ generatedSheets[j].createdBy = "migration"
     /\ generatedSheets[i].sheetToken = generatedSheets[j].sheetToken)
    => i = j

\* C30: migration of generated-sheet records is idempotent and keeps
\* sheetToken unique: a second migrate with the same input inserts nothing
\* and reports migrated = 0, and after any sequence of migrate calls no two
\* records created by migration share a sheetToken, also when one input
\* batch names the same sheetToken twice.
C30_MigrateIdempotentUnique ==
  [][SecondMigrateInsertsNothing]_vars /\ []MigratedTokensUnique

----------------------------------------------------------------------------
\* a step in which a scan ran to its end
ScanSucceeded ==
  /\ Len(taskRunLogs') = Len(taskRunLogs) + 1
  /\ taskRunLogs'[Len(taskRunLogs')].status = "SUCCESS"

\* the createOrUpdateTask calls of a scan that starts in the current state
CreateCalls ==
  LET calls == projectCalls(scannedProjects, todayOf(now))
                 \o systemCalls(todayOf(now))
  IN {calls[i] : i \in {j \in 1..Len(calls) : calls[j].create}}

\* the step posts a notification for the task of the call
NotifiedInStep(call) ==
  \E k \in (Len(notifications) + 1)..Len(notifications') :
    /\ notifications'[k].relatedProjectId = call.relatedProjectId
    /\ notifications'[k].type = call.type

\* the call creates the task, or finds it COMPLETED and resets it
CreatesOrResets(call) ==
  LET i == firstTask(tasks, call.relatedProjectId, call.type,
                     {"pending", "COMPLETED"})
  IN i = 0 \/ tasks[i].status = "COMPLETED"

\* C24: createOrUpdateTask sends a Feishu notification exactly when the task
\* was newly created or its status was reset to pending by this call (it
\* was COMPLETED before); a call that re-upserts a task that was already
\* pending sends no notification.
C24_NotifyOnCreateOrReset ==
  [][ScanSucceeded =>
       \A call \in CreateCalls : NotifiedInStep(call) <=> CreatesOrResets(call)]_vars

----------------------------------------------------------------------------
\* the last request was a scan that ran to its end, and nothing has changed
\* since
AfterSuccessfulScan ==
  /\ resp.op = "scan"
  /\ resp.at = now
  /\ taskRunLogs # <<>>
  /\ taskRunLogs[Len(taskRunLogs)].status = "SUCCESS"
  /\ taskRunLogs[Len(taskRunLogs)].timestamp = now

TasksKeyed(relatedProjectId, type) ==
  {k \in 1..Len(tasks) : /\ tasks[k].relatedProjectId = relatedProjectId
                         /\ tasks[k].type = type}

RuleTypes == {PROJECT_RULES[k] : k \in 1..Len(PROJECT_RULES)}

\* C26: after a scan completes successfully, for every scanned project and
\* every project task rule there is at most one task keyed by
\* (relatedProjectId, type); that task is pending when the rule's condition
\* holds for the project, and when the condition does not hold no task with
\* that key is left in a status other than COMPLETED.
C26_TasksFollowRules ==
  AfterSuccessfulScan =>
    \A i \in 1..Len(scannedProjects), type \in RuleTypes :
      LET project == scannedProjects[i]
          keyed == TasksKeyed(project.id, type)
          holds == condition(type, project, collabsByProject(project.id),
                             todayOf(now))
      IN /\ Cardinality(keyed) <= 1
         /\ holds => (keyed # {} /\ \A k \in keyed : tasks[k].status = "pending")
         /\ ~holds => \A k \in keyed : tasks[k].status = "COMPLETED"

\* a scan has just completed one task of project p1 and left another pending
C26_Witness ==
  /\ AfterSuccessfulScan
  /\ \E k \in 1..Len(tasks) : /\ tasks[k].relatedProjectId = "p1"
                              /\ tasks[k].status = "COMPLETED"
                              /\ tasks[k].updatedAt = now
  /\ \E k \in 1..Len(tasks) : /\ tasks[k].relatedProjectId = "p1"
                              /\ tasks[k].status = "pending"
                              /\ tasks[k].updatedAt = now

----------------------------------------------------------------------------
\* the step is a scan run: the scheduled trigger or POST triggerScan
IsScanRun == \E in \in ScanInputs : Scan(in[1], in[2], in[3])

\* the step is a request of the task generator that is not a scan
IsOtherRequest ==
  \/ GeneratorOptions
  \/ \E failed \in BOOLEAN : GetLogs(failed)
  \/ InvalidAction

\* the step appends exactly one log record, of status SUCCESS or FAILURE
WritesOneLog ==
  /\ Len(taskRunLogs') = Len(taskRunLogs) + 1
  /\ SubSeq(taskRunLogs', 1, Len(taskRunLogs)) = taskRunLogs
  /\ taskRunLogs'[Len(taskRunLogs')].status \in {"SUCCESS", "FAILURE"}

NoPendingLog ==
  \A k \in 1..Len(taskRunLogs) : taskRunLogs[k].status # "PENDING"

\* C29: every scan run of the task generator (scheduled trigger or POST
\* with action triggerScan) writes exactly one record to task_run_logs
\* before it returns, and that record's status is SUCCESS or FAILURE, never
\* PENDING; requests that are not scans (OPTIONS, getLogs, an invalid
\* action) write no log record.
C29_OneLogPerScan ==
  /\ [][/\ IsScanRun => WritesOneLog
        /\ IsOtherRequest => taskRunLogs' = taskRunLogs]_vars
  /\ []NoPendingLog

\* a failed manual scan and a successful scheduled one have been logged,
\* and a getLogs request has been answered after them
C29_Witness ==
  /\ Len(taskRunLogs) = 2
  /\ \E k \in 1..2 : /\ taskRunLogs[k].status = "FAILURE"
                     /\ taskRunLogs[k].triggerType = "MANUAL"
  /\ \E k \in 1..2 : /\ taskRunLogs[k].status = "SUCCESS"
                     /\ taskRunLogs[k].triggerType = "SCHEDULED"
  /\ resp.op = "getLogs"
  /\ resp.code = 200

====
